---- MODULE Spec2Model ----
(***************************************************************************)
(* Query engine of vscode-lsif-extension: position resolution and range    *)
(* containment (json.ts, blobStore), the JsonDatabase graph index          *)
(* (json.ts) and the relational GraphStore (graphStore.ts).                *)
(***************************************************************************)
EXTENDS Integers, Sequences, FiniteSets, TLC

\* ------------------------------------------------------------------------
\* Bounds of the model
\* ------------------------------------------------------------------------
MaxLine == 1
MaxChar == 1
MaxLen == 2

\* the number of iterations a walk along the next chain is followed for
MaxWalk == 4

\* the grid of the position filter: lines 0..WhereMaxLine, characters 0..WhereMaxChar
WhereMaxLine == 2

WhereMaxChar == 1

\* ------------------------------------------------------------------------
\* lsp.Position / lsp.Range values
\* ------------------------------------------------------------------------
Positions == [line : 0..MaxLine, character : 0..MaxChar]

\* line-major order on positions
PosLE(a, b) == a.line < b.line \/ (a.line = b.line /\ a.character <= b.character)

Spans == {s \in [start : Positions, end : Positions] : PosLE(s.start, s.end)}

Pos(l, c) == [line |-> l, character |-> c]

Span(sl, sc, el, ec) == [start |-> Pos(sl, sc), end |-> Pos(el, ec)]

\* the value `undefined`
undefined == [label |-> "undefined"]

\* the candidates of the example of the specification
ExampleA == Span(0, 0, 10, 0)

ExampleB == Span(2, 0, 3, 0)

ExampleP == Pos(2, 3)

\* ------------------------------------------------------------------------
\* JsonDatabase: values
\* ------------------------------------------------------------------------
\* an optional value: Undef is `undefined`, Def(x) a defined value
Undef == <<>>

Def(x) == <<x>>

IsDef(o) == o # <<>>

Val(o) == o[1]

\* Map.get / Map.set on a map held as a function
Has(m, k) == k \in DOMAIN m

MapSet(m, k, v) == (k :> v) @@ m

\* a uri is a root prefix followed by a path
Uri(root, path) == [root |-> root, path |-> path]

\* Transformer.toDatabase / fromDatabase: swap the lsif root and the project root
toDatabase(uri) == IF uri.root = "lsif" THEN Uri("project", uri.path) ELSE uri

fromDatabase(uri) == IF uri.root = "project" THEN Uri("lsif", uri.path) ELSE uri

\* vertices
DocumentVertex(id, uri) == [id |-> id, label |-> "document", uri |-> uri]

ResultSetVertex(id) == [id |-> id, label |-> "resultSet"]

ReferenceResultVertex(id, refs, decls, defs, results) ==
    [id |-> id, label |-> "referenceResult", references |-> refs,
     declarations |-> decls, definitions |-> defs, referenceResults |-> results]

\* an element of a references/declarations/definitions list: a range id or an
\* inline lsp.Location
IdItem(id) == [id |-> id]

Location(uri, span) == [uri |-> uri, range |-> span]

\* lsp.Location.is
IsLocation(item) == "uri" \in DOMAIN item

\* edges
Edge(label, outV, inV) == [label |-> label, outV |-> outV, inV |-> inV, property |-> "none"]

ItemEdge(outV, inV, property) == [label |-> "item", outV |-> outV, inV |-> inV, property |-> property]

\* Database.asRange
asRange(value) == [start |-> value.start, end |-> value.end]

\* ------------------------------------------------------------------------
\* State
\* ------------------------------------------------------------------------
VARIABLES
    gContains,   \* the `contains` list of the queried document
    gPosition,     \* the queried position
    gCandidate,    \* the range findRangeFromPosition returned
    gRange,        \* first argument of containsPosition / containsRange
    gOtherRange,   \* second argument of containsRange
    gAnswer,       \* the boolean the last containment test returned
    gOp            \* the operation applied last

geomVars == <<gContains, gPosition, gCandidate, gRange, gOtherRange, gAnswer, gOp>>


\* a vertex of the `contains` list: a Range with its span, or another vertex
RangeVertex(id, span) == [id |-> id, label |-> "range", start |-> span.start, end |-> span.end]

OtherVertex(id) == [id |-> id, label |-> "document"]

SpanOf(v) == [start |-> v.start, end |-> v.end]

GeomIdle ==
    /\ gContains = <<>>
    /\ gPosition = Pos(0, 0)
    /\ gCandidate = undefined
    /\ gRange = Span(0, 0, 0, 0)
    /\ gOtherRange = Span(0, 0, 0, 0)
    /\ gAnswer = FALSE
    /\ gOp = "idle"

\* ------------------------------------------------------------------------
\* JsonDatabase: state
\* ------------------------------------------------------------------------
VARIABLES
    vertices,     \* vertices.all / documents / ranges : id -> vertex
    indices,      \* indices.documents : uri -> document vertex
    out,          \* out.contains / item / refersTo / references / definition
    inn,          \* in.contains : id -> containing vertex
    jstate,       \* "loading", "loaded" (the stream closed), "failed" (an edge threw)
    jresult,      \* the last query and what it returned
    jload         \* this.version, this.projectRoot, the promise of load, the last line

jsonVars == <<vertices, indices, out, inn, jstate, jresult, jload>>

NoResult == [op |-> "none"]

\* before the first line: no version, no project root, the promise pending;
\* line is the last line processed, kept when trace is set
NotLoaded ==
    [version |-> Undef, projectRoot |-> Undef, promise |-> "pending", reason |-> "",
     initialized |-> FALSE, closed |-> FALSE, trace |-> FALSE, line |-> NoResult,
     thrown |-> Undef]

InitJson ==
    /\ vertices = [all |-> <<>>, documents |-> <<>>, ranges |-> <<>>]
    /\ indices = [documents |-> <<>>]
    /\ out = [contains |-> <<>>, item |-> <<>>, refersTo |-> <<>>,
              references |-> <<>>, definition |-> <<>>, documentSymbol |-> <<>>]
    /\ inn = [contains |-> <<>>]
    /\ jstate = "loading"
    /\ jresult = NoResult
    /\ jload = NotLoaded

\* ------------------------------------------------------------------------
\* GraphStore: state
\* ------------------------------------------------------------------------
VARIABLES
    db,           \* the tables of the SQLite file, each a list of rows in row order
    gsResult      \* the last GraphStore query and what it returned

graphVars == <<db, gsResult>>

EmptyDb == [documents |-> <<>>, ranges |-> <<>>, vertices |-> <<>>,
            monikers |-> <<>>, edges |-> <<>>, items |-> <<>>]

GraphIdle ==
    /\ db = EmptyDb
    /\ gsResult = NoResult

\* ------------------------------------------------------------------------
\* BlobStore: state
\* ------------------------------------------------------------------------
VARIABLES
    blobDb,       \* the SQLite database: open flag and tables
    blobs,        \* this.blobs : document id -> decoded DocumentBlob
    bsResult      \* the last query and what it returned

blobVars == <<blobDb, blobs, bsResult>>

EmptyBlobDb == [open |-> FALSE, documents |-> <<>>, versions |-> {}, blobs |-> <<>>,
                decls |-> <<>>, defs |-> <<>>, refs |-> <<>>, hovers |-> <<>>]

BlobIdle ==
    /\ blobDb = EmptyBlobDb
    /\ blobs = <<>>
    /\ bsResult = NoResult

\* ------------------------------------------------------------------------
\* Decompressor: state
\* ------------------------------------------------------------------------
VARIABLES
    dcAll,         \* Decompressor.all : schema id -> decompressor
    dcCompressed,  \* the compressed record handed to decompress
    dcResult       \* the last decompress call and what it returned

decVars == <<dcAll, dcCompressed, dcResult>>

DecIdle ==
    /\ dcAll = <<>>
    /\ dcCompressed = <<>>
    /\ dcResult = NoResult

\* ------------------------------------------------------------------------
\* Server: state
\* ------------------------------------------------------------------------
VARIABLES
    workspaceFolders,  \* the uris of the workspace folders onInitialize stored
    databases,         \* Map key -> promise, in insertion order; a promise is
                       \* "pending", "resolved" or "rejected"
    sortedKeys,        \* _sortedDatabaseKeys: undefined or the cached key list
    registrations,     \* registrations !== undefined
    microtasks,        \* the then-callbacks that are queued to run
    handler,           \* the handler that is running or suspended at an await
    srvResult          \* the last findDatabase call and what it returned

srvVars == <<workspaceFolders, databases, sortedKeys, registrations, microtasks, handler, srvResult>>

NoHandler == [kind |-> "none", todo |-> <<>>, awaiting |-> Undef, finished |-> "none"]

ServerIdle ==
    /\ workspaceFolders = <<>>
    /\ databases = <<>>
    /\ sortedKeys = Undef
    /\ registrations = FALSE
    /\ microtasks = <<>>
    /\ handler = NoHandler
    /\ srvResult = NoResult

\* ------------------------------------------------------------------------
\* The components: each specification drives one and leaves the others idle
\* ------------------------------------------------------------------------
nonGeomVars == <<jsonVars, graphVars, blobVars, decVars, srvVars>>

nonJsonVars == <<geomVars, graphVars, blobVars, decVars, srvVars>>

nonGraphVars == <<geomVars, jsonVars, blobVars, decVars, srvVars>>

nonBlobVars == <<geomVars, jsonVars, graphVars, decVars, srvVars>>

nonDecVars == <<geomVars, jsonVars, graphVars, blobVars, srvVars>>

nonSrvVars == <<geomVars, jsonVars, graphVars, blobVars, decVars>>

NonGeomIdle == InitJson /\ GraphIdle /\ BlobIdle /\ DecIdle /\ ServerIdle

NonJsonIdle == GeomIdle /\ GraphIdle /\ BlobIdle /\ DecIdle /\ ServerIdle

NonGraphIdle == GeomIdle /\ InitJson /\ BlobIdle /\ DecIdle /\ ServerIdle

NonBlobIdle == GeomIdle /\ InitJson /\ GraphIdle /\ DecIdle /\ ServerIdle

NonDecIdle == GeomIdle /\ InitJson /\ GraphIdle /\ BlobIdle /\ ServerIdle

NonSrvIdle == GeomIdle /\ InitJson /\ GraphIdle /\ BlobIdle /\ DecIdle

vars == <<geomVars, nonGeomVars>>

\* ------------------------------------------------------------------------
\* Position resolution and range containment
\* ------------------------------------------------------------------------
containsPositionOpenEnd(range, position) ==
    IF position.line < range.start.line \/ position.line > range.end.line THEN FALSE
    ELSE IF position.line = range.start.line /\ position.character < range.start.character THEN FALSE
    ELSE IF position.line = range.end.line /\ position.character >= range.end.character THEN FALSE
    ELSE TRUE

containsPosition(range, position) ==
    IF position.line < range.start.line \/ position.line > range.end.line THEN FALSE
    ELSE IF position.line = range.start.line /\ position.character < range.start.character THEN FALSE
    ELSE IF position.line = range.end.line /\ position.character > range.end.character THEN FALSE
    ELSE TRUE

containsRangeNoEndCharacter(range, otherRange) ==
    IF otherRange.start.line < range.start.line \/ otherRange.end.line < range.start.line THEN FALSE
    ELSE IF otherRange.start.line > range.end.line \/ otherRange.end.line > range.end.line THEN FALSE
    ELSE IF otherRange.start.line = range.start.line /\ otherRange.start.character < range.start.character THEN FALSE
    ELSE TRUE

containsRange(range, otherRange) ==
    IF otherRange.start.line < range.start.line \/ otherRange.end.line < range.start.line THEN FALSE
    ELSE IF otherRange.start.line > range.end.line \/ otherRange.end.line > range.end.line THEN FALSE
    ELSE IF otherRange.start.line = range.start.line /\ otherRange.start.character < range.start.character THEN FALSE
    ELSE IF otherRange.end.line = range.end.line /\ otherRange.end.character > range.end.character THEN FALSE
    ELSE TRUE

\* the loop of findRangeFromPosition over the `contains` list, from item i on
RECURSIVE findRangeLoopOutermost(_, _, _, _)
findRangeLoopOutermost(contains, i, cand, position) ==
    IF i > Len(contains) THEN cand
    ELSE LET item == contains[i] IN
         IF item.label # "range" THEN findRangeLoopOutermost(contains, i + 1, cand, position)
         ELSE IF containsPosition(item, position)
              THEN IF cand = undefined
                   THEN findRangeLoopOutermost(contains, i + 1, item, position)
                   ELSE IF containsRange(item, cand)
                        THEN findRangeLoopOutermost(contains, i + 1, item, position)
                        ELSE findRangeLoopOutermost(contains, i + 1, cand, position)
              ELSE findRangeLoopOutermost(contains, i + 1, cand, position)

RECURSIVE findRangeLoop(_, _, _, _)
findRangeLoop(contains, i, cand, position) ==
    IF i > Len(contains) THEN cand
    ELSE LET item == contains[i] IN
         IF item.label # "range" THEN findRangeLoop(contains, i + 1, cand, position)
         ELSE IF containsPosition(item, position)
              THEN IF cand = undefined
                   THEN findRangeLoop(contains, i + 1, item, position)
                   ELSE IF containsRange(cand, item)
                        THEN findRangeLoop(contains, i + 1, item, position)
                        ELSE findRangeLoop(contains, i + 1, cand, position)
              ELSE findRangeLoop(contains, i + 1, cand, position)

\* findRangeFromPosition once the document and its `contains` list are found
findRangeInContains(contains, position) ==
    IF Len(contains) = 0 THEN undefined
    ELSE findRangeLoop(contains, 1, undefined, position)

\* ------------------------------------------------------------------------
\* JsonDatabase: load
\* ------------------------------------------------------------------------
\* a version string: dot-separated numbers and a prerelease tag ("" for none)
Version(parts, prerelease) == [parts |-> parts, prerelease |-> prerelease]

\* SemVer.parse: major.minor.patch with an optional prerelease tag, else null
SemVerParse(version) ==
    IF Len(version.parts) = 3
    THEN Def([major |-> version.parts[1], minor |-> version.parts[2],
              patch |-> version.parts[3], prerelease |-> version.prerelease])
    ELSE Undef

\* SemVer.satisfies(semVer, "0.3.x"): >= 0.3.0 and < 0.4.0, no prerelease
SemVerSatisfies(semVer, range) ==
    range = "0.3.x" /\ semVer.major = 0 /\ semVer.minor = 3 /\ semVer.prerelease = ""

\* the metaData vertex
MetaDataVertex(id, version, projectRoot) ==
    [id |-> id, label |-> "metaData", version |-> version, projectRoot |-> projectRoot]

\* processVertex: store the vertex in the identity maps of its label
processVertex(vertex) ==
    /\ vertices' = [all |-> MapSet(vertices.all, vertex.id, vertex),
                    documents |-> IF vertex.label = "document"
                                  THEN MapSet(vertices.documents, vertex.id, vertex)
                                  ELSE vertices.documents,
                    ranges |-> IF vertex.label = "range"
                               THEN MapSet(vertices.ranges, vertex.id, vertex)
                               ELSE vertices.ranges]
    /\ indices' = [documents |-> IF vertex.label = "document"
                                 THEN MapSet(indices.documents, vertex.uri, vertex)
                                 ELSE indices.documents]
    /\ jload' = [jload EXCEPT
                    !.line = IF jload.trace THEN vertex ELSE @,
                    !.version = IF vertex.label = "metaData" THEN vertex.version ELSE @,
                    !.projectRoot = IF vertex.label = "metaData" /\ IsDef(vertex.projectRoot)
                                    THEN vertex.projectRoot ELSE @]
    /\ UNCHANGED <<out, inn, jstate, jresult>>

\* push of a value on the list a map holds under a key
MapPush(m, k, v) == MapSet(m, k, IF Has(m, k) THEN Append(m[k], v) ELSE <<v>>)

\* the target an item edge adds to out.item, by the edge's property
itemTarget(edge, to) ==
    IF edge.property \in {"references", "declarations", "definitions"}
    THEN Def([type |-> edge.property, range |-> to])
    ELSE IF edge.property = "referenceResults"
         THEN Def([type |-> edge.property, result |-> to])
         ELSE Undef

\* processEdge that drops an edge with an unknown endpoint without throwing
processEdgeSkipMissing(edge) ==
    /\ jload' = [jload EXCEPT !.line = IF jload.trace THEN edge ELSE @]
    /\ UNCHANGED <<vertices, indices, out, inn, jstate, jresult>>

\* processEdge: both endpoints must be known vertices, else it throws
processEdge(edge) ==
    IF ~Has(vertices.all, edge.outV) \/ ~Has(vertices.all, edge.inV)
    THEN /\ jstate' = "failed"
         /\ jload' = [jload EXCEPT !.line = IF jload.trace THEN edge ELSE @,
                                   !.thrown = IF ~Has(vertices.all, edge.outV)
                                              THEN Def(edge.outV) ELSE Def(edge.inV)]
         /\ UNCHANGED <<vertices, indices, out, inn, jresult>>
    ELSE LET from == vertices.all[edge.outV]
             to == vertices.all[edge.inV]
         IN /\ out' =
                 CASE edge.label = "contains" ->
                        [out EXCEPT !.contains = MapPush(out.contains, from.id, to)]
                   [] edge.label = "item" ->
                        IF IsDef(itemTarget(edge, to))
                        THEN [out EXCEPT !.item = MapPush(out.item, from.id, Val(itemTarget(edge, to)))]
                        ELSE out
                   [] edge.label = "refersTo" ->
                        [out EXCEPT !.refersTo = MapSet(out.refersTo, from.id, to)]
                   [] edge.label = "textDocument/definition" ->
                        [out EXCEPT !.definition = MapSet(out.definition, from.id, to)]
                   [] edge.label = "textDocument/references" ->
                        [out EXCEPT !.references = MapSet(out.references, from.id, to)]
                   [] edge.label = "textDocument/documentSymbol" ->
                        [out EXCEPT !.documentSymbol = MapSet(out.documentSymbol, from.id, to)]
                   [] OTHER -> out
            /\ inn' = IF edge.label = "contains"
                      THEN [contains |-> MapSet(inn.contains, to.id, from)]
                      ELSE inn
            /\ jload' = [jload EXCEPT !.line = IF jload.trace THEN edge ELSE @]
            /\ UNCHANGED <<vertices, indices, jstate, jresult>>

\* ------------------------------------------------------------------------
\* JsonDatabase: queries
\* ------------------------------------------------------------------------
\* findRangeFromPosition: the document of the file, its contains list, the loop
findRangeFromPosition(file, position) ==
    IF ~Has(indices.documents, file) THEN undefined
    ELSE LET document == indices.documents[file] IN
         IF ~Has(out.contains, document.id) THEN undefined
         ELSE findRangeInContains(out.contains[document.id], position)

\* getResult: the range's own result, else the result of the ResultSet the
\* range refers to
getResult(range, edges) ==
    IF Has(edges, range.id) THEN Def(edges[range.id])
    ELSE IF ~Has(out.refersTo, range.id) THEN Undef
         ELSE LET resultSet == out.refersTo[range.id] IN
              IF Has(edges, resultSet.id) THEN Def(edges[resultSet.id]) ELSE Undef

\* the loops of resolveReferenceResult over an explicit list of range ids and
\* inline locations: a location is kept, an id is replaced by its range
RECURSIVE resolveItems(_)
resolveItems(items) ==
    IF items = <<>> THEN <<>>
    ELSE LET item == Head(items) IN
         IF IsLocation(item) THEN <<item>> \o resolveItems(Tail(items))
         ELSE IF Has(vertices.ranges, item.id)
              THEN <<vertices.ranges[item.id]>> \o resolveItems(Tail(items))
              ELSE resolveItems(Tail(items))

\* the loop over value.referenceResults in resolveReferenceResult
RECURSIVE resolveResults(_)
resolveResults(ids) ==
    IF ids = <<>> THEN <<>>
    ELSE IF Has(vertices.all, Head(ids))
         THEN <<vertices.all[Head(ids)]>> \o resolveResults(Tail(ids))
         ELSE resolveResults(Tail(ids))

\* the targets of the given types, in list order, each reduced to its payload
TargetsOf(targets, types) ==
    LET sel == SelectSeq(targets, LAMBDA t : t.type \in types)
    IN [i \in 1..Len(sel) |-> IF sel[i].type = "referenceResults" THEN sel[i].result ELSE sel[i].range]

\* resolveReferenceResult: the explicit fields, or the item edges when none of
\* references / declarations / referenceResults is set; a `declarations`
\* target falls through to the definitions list as well
resolveReferenceResult(value, includeDeclaration) ==
    LET references == IF IsDef(value.references)
                      THEN Def(resolveItems(Val(value.references))) ELSE Undef
        declarations == IF includeDeclaration /\ IsDef(value.declarations)
                        THEN Def(resolveItems(Val(value.declarations))) ELSE Undef
        definitions == IF includeDeclaration /\ IsDef(value.definitions)
                       THEN Def(resolveItems(Val(value.definitions))) ELSE Undef
        referenceResults == IF IsDef(value.referenceResults)
                            THEN Def(resolveResults(Val(value.referenceResults))) ELSE Undef
        targets == IF Has(out.item, value.id) THEN out.item[value.id] ELSE <<>>
    IN IF ~IsDef(references) /\ ~IsDef(declarations) /\ ~IsDef(referenceResults)
       THEN [references |-> TargetsOf(targets, {"references"}),
             declarations |-> TargetsOf(targets, {"declarations"}),
             definitions |-> TargetsOf(targets, {"declarations", "definitions"}),
             referenceResults |-> TargetsOf(targets, {"referenceResults"})]
       ELSE [references |-> IF IsDef(references) THEN Val(references) ELSE <<>>,
             declarations |-> IF IsDef(declarations) THEN Val(declarations) ELSE <<>>,
             definitions |-> IF IsDef(definitions) THEN Val(definitions) ELSE <<>>,
             referenceResults |-> IF IsDef(referenceResults) THEN Val(referenceResults) ELSE <<>>]

\* the accumulator of a references query: the locations, the set of emitted
\* range ids, and whether resolving a location threw
Acc(result, dedup, error) == [result |-> result, dedup |-> dedup, error |-> error]

addLocationNoDedup(acc, value) ==
    IF acc.error THEN acc
    ELSE IF IsLocation(value) THEN Acc(Append(acc.result, value), acc.dedup, FALSE)
    ELSE IF ~Has(inn.contains, value.id) THEN Acc(acc.result, acc.dedup, TRUE)
    ELSE Acc(Append(acc.result,
                    Location(fromDatabase(inn.contains[value.id].uri), asRange(value))),
             acc.dedup \cup {value.id}, FALSE)

\* addLocation: an inline location is pushed; a range is pushed once per id,
\* with the uri of the document that contains it (none: the access throws)
addLocation(acc, value) ==
    IF acc.error THEN acc
    ELSE IF IsLocation(value) THEN Acc(Append(acc.result, value), acc.dedup, FALSE)
    ELSE IF value.id \in acc.dedup THEN acc
    ELSE IF ~Has(inn.contains, value.id) THEN Acc(acc.result, acc.dedup, TRUE)
    ELSE Acc(Append(acc.result,
                    Location(fromDatabase(inn.contains[value.id].uri), asRange(value))),
             acc.dedup \cup {value.id}, FALSE)

RECURSIVE addLocations(_, _)
addLocations(acc, items) ==
    IF items = <<>> THEN acc
    ELSE addLocations(addLocation(acc, Head(items)), Tail(items))

\* asReferenceResult: references, then declarations, then definitions, then
\* the children named by the explicit referenceResults field, with one dedup
\* set for the whole recursion
RECURSIVE asReferenceResult(_, _, _)
RECURSIVE asReferenceResultChildren(_, _, _)
asReferenceResult(value, includeDeclaration, dedup) ==
    LET resolved == resolveReferenceResult(value, includeDeclaration)
        a1 == addLocations(Acc(<<>>, dedup, FALSE), resolved.references)
        a2 == addLocations(a1, resolved.declarations)
        a3 == addLocations(a2, resolved.definitions)
    IN IF IsDef(value.referenceResults)
       THEN asReferenceResultChildren(a3, Val(value.referenceResults), includeDeclaration)
       ELSE a3

asReferenceResultChildren(acc, ids, includeDeclaration) ==
    IF ids = <<>> \/ acc.error THEN acc
    ELSE IF Has(vertices.all, Head(ids))
         THEN LET child == asReferenceResult(vertices.all[Head(ids)], includeDeclaration, acc.dedup)
              IN asReferenceResultChildren(
                     Acc(acc.result \o child.result, child.dedup, child.error),
                     Tail(ids), includeDeclaration)
         ELSE asReferenceResultChildren(acc, Tail(ids), includeDeclaration)

\* what a query hands back: `undefined`, a list, or a thrown error
Returned(v) == [value |-> Def(v), error |-> FALSE]

ReturnedUndefined == [value |-> Undef, error |-> FALSE]

Thrown == [value |-> Undef, error |-> TRUE]

\* references(uri, position, context)
references(uri, position, includeDeclaration) ==
    LET range == findRangeFromPosition(toDatabase(uri), position) IN
    IF range = undefined THEN ReturnedUndefined
    ELSE LET referenceResult == getResult(range, out.references) IN
         IF ~IsDef(referenceResult) THEN ReturnedUndefined
         ELSE LET acc == asReferenceResult(Val(referenceResult), includeDeclaration, {})
              IN IF acc.error THEN Thrown ELSE Returned(acc.result)

\* ------------------------------------------------------------------------
\* GraphStore: rows and statements
\* ------------------------------------------------------------------------
DocumentRow(id, uri) == [id |-> id, uri |-> uri]

RangeRow(id, belongsTo, span) ==
    [id |-> id, belongsTo |-> belongsTo,
     startLine |-> span.start.line, startCharacter |-> span.start.character,
     endLine |-> span.end.line, endCharacter |-> span.end.character]

\* the compressed value of a vertex: the id of its schema, then its properties
CompressedVertex(label, id) == <<label, id>>

CompressedMoniker(id, scheme, identifier, kind, unique) ==
    <<"moniker", id, scheme, identifier, kind, unique>>

VertexRow(value) == [id |-> value[2], label |-> value[1], value |-> value]

MonikerRow(value) == [id |-> value[2], scheme |-> value[3], identifier |-> value[4]]

EdgeRow(outV, label, inV) == [outV |-> outV, label |-> label, inV |-> inV]

ItemRow(outV, inV, property) == [outV |-> outV, inV |-> inV, property |-> property]

\* decompress: the record the schema of element 0 describes (every row of the
\* databases below starts with a registered schema id)
decompress(value) ==
    IF value[1] = "moniker"
    THEN [id |-> value[2], label |-> "moniker", scheme |-> value[3],
          identifier |-> value[4], kind |-> value[5], unique |-> value[6]]
    ELSE IF value[1] = "range" /\ Len(value) = 4
    THEN [id |-> value[2], label |-> "range", start |-> value[3].start, end |-> value[3].end,
          tag |-> value[4]]
    ELSE IF value[1] = "documentSymbolResult"
    THEN [id |-> value[2], label |-> "documentSymbolResult", result |-> value[3]]
    ELSE [id |-> value[2], label |-> value[1]]

\* the rows of a table with the given id (the id is the primary key)
RowsById(table, id) == SelectSeq(table, LAMBDA row : row.id = id)

\* the join of a list of rows with a table on row[column] = table.id
RECURSIVE JoinOn(_, _, _)
JoinOn(rows, column, table) ==
    IF rows = <<>> THEN <<>>
    ELSE LET joined == RowsById(table, Head(rows)[column])
         IN [i \in 1..Len(joined) |-> [row |-> Head(rows), target |-> joined[i]]]
            \o JoinOn(Tail(rows), column, table)

\* the where clause with an exclusive end character
findRangesWhereExclusiveEnd(r, line, character) ==
    \/ (r.startLine < line /\ line < r.endLine)
    \/ (r.startLine = line /\ r.startCharacter <= character /\ line < r.endLine)
    \/ (r.startLine < line /\ r.endLine = line /\ character < r.endCharacter)
    \/ (r.startLine = line /\ r.endLine = line /\ r.startCharacter <= character
            /\ character < r.endCharacter)

\* the where clause of findRangesStmt
findRangesWhere(r, line, character) ==
    \/ (r.startLine < line /\ line < r.endLine)
    \/ (r.startLine = line /\ r.startCharacter <= character /\ line < r.endLine)
    \/ (r.startLine < line /\ r.endLine = line /\ character <= r.endCharacter)
    \/ (r.startLine = line /\ r.endLine = line /\ r.startCharacter <= character
            /\ character <= r.endCharacter)

\* findRangesStmt.all: the range rows of the documents with the uri that
\* satisfy the where clause
findRangesStmt(uri, position) ==
    LET joined == JoinOn(db.ranges, "belongsTo", db.documents)
        hits == SelectSeq(joined, LAMBDA j :
                    /\ j.target.uri = uri
                    /\ findRangesWhere(j.row, position.line, position.character))
    IN [i \in 1..Len(hits) |-> hits[i].row]

\* the vertex rows an edge with the label leads to from the source
retrieveByEdge(source, label) ==
    LET joined == JoinOn(SelectSeq(db.edges, LAMBDA e : e.outV = source /\ e.label = label),
                         "inV", db.vertices)
    IN [i \in 1..Len(joined) |-> joined[i].target]

\* retrieveResult: retrieveResultStmt.get and decompress
retrieveResult(vertexId, label) ==
    LET qr == retrieveByEdge(vertexId, label)
    IN IF qr = <<>> THEN Undef ELSE Def(decompress(qr[1].value))

\* retrieveMoniker: retrieveMonikerStmt.get and decompress
retrieveMoniker(vertexId) ==
    LET qr == retrieveByEdge(vertexId, "moniker")
    IN IF qr = <<>> THEN Undef ELSE Def(decompress(qr[1].value))

\* retrieveNextVertexId: retrieveNextVertexStmt.get
retrieveNextVertexId(vertexId) ==
    LET qr == SelectSeq(db.edges, LAMBDA e : e.outV = vertexId /\ e.label = "next")
    IN IF qr = <<>> THEN Undef ELSE Def(qr[1].inV)

\* getResultPath: walk the next chain from start to the first vertex that has
\* a result of the label; the vertices passed and their monikers are the path
RECURSIVE getResultPathLoop(_, _, _)
getResultPathLoop(currentId, label, path) ==
    LET value == retrieveResult(currentId, label)
        moniker == retrieveMoniker(currentId)
    IN IF IsDef(value)
       THEN [path |-> path, result |-> Def([value |-> Val(value), moniker |-> moniker])]
       ELSE LET walked == Append(path, [vertex |-> currentId, moniker |-> moniker])
                next == retrieveNextVertexId(currentId)
            IN IF ~IsDef(next) THEN [path |-> walked, result |-> Undef]
               ELSE getResultPathLoop(Val(next), label, walked)

getResultPath(start, label) == getResultPathLoop(start, label, <<>>)

\* getClosestMoniker: the moniker at the result, else the last one on the path
RECURSIVE getClosestMonikerLoop(_, _)
getClosestMonikerLoop(path, i) ==
    IF i < 1 THEN Undef
    ELSE IF IsDef(path[i].moniker) THEN path[i].moniker
         ELSE getClosestMonikerLoop(path, i - 1)

\* getClosestMoniker that scans the path from the queried range on
getClosestMonikerFromStart(resultPath) ==
    IF IsDef(resultPath.result) /\ IsDef(Val(resultPath.result).moniker)
    THEN Val(resultPath.result).moniker
    ELSE LET carrying == SelectSeq(resultPath.path, LAMBDA p : IsDef(p.moniker))
         IN IF carrying = <<>> THEN Undef ELSE carrying[1].moniker

getClosestMoniker(resultPath) ==
    IF IsDef(resultPath.result) /\ IsDef(Val(resultPath.result).moniker)
    THEN Val(resultPath.result).moniker
    ELSE getClosestMonikerLoop(resultPath.path, Len(resultPath.path))

\* ------------------------------------------------------------------------
\* The walks along the next chain, one loop iteration at a time
\* ------------------------------------------------------------------------
\* the state of a walk: the vertex it stands on, the path and result so far
\* and, as history, the vertices whose result was looked up
Walk(op, start, label) ==
    [op |-> op, start |-> start, label |-> label, currentId |-> start, path |-> <<>>,
     visited |-> <<>>, result |-> Undef, done |-> FALSE, closest |-> NoResult]

\* an iteration of getResultPath that looks for the result behind the vertex
\* it stands on
getResultPathStepLate(w) ==
    LET moniker == retrieveMoniker(w.currentId)
        walked == Append(w.path, [vertex |-> w.currentId, moniker |-> moniker])
        seen == Append(w.visited, w.currentId)
        next == retrieveNextVertexId(w.currentId)
    IN IF ~IsDef(next) THEN [w EXCEPT !.path = walked, !.visited = seen, !.done = TRUE]
       ELSE LET value == retrieveResult(Val(next), w.label)
            IN IF IsDef(value)
               THEN [w EXCEPT !.path = walked, !.visited = seen, !.done = TRUE,
                              !.result = Def([value |-> Val(value),
                                              moniker |-> retrieveMoniker(Val(next))])]
               ELSE [w EXCEPT !.path = walked, !.visited = seen, !.currentId = Val(next)]

\* an iteration of the do-while loop of getResultPath
getResultPathStep(w) ==
    LET value == retrieveResult(w.currentId, w.label)
        moniker == retrieveMoniker(w.currentId)
        seen == Append(w.visited, w.currentId)
    IN IF IsDef(value)
       THEN [w EXCEPT !.result = Def([value |-> Val(value), moniker |-> moniker]),
                      !.visited = seen, !.done = TRUE]
       ELSE LET walked == Append(w.path, [vertex |-> w.currentId, moniker |-> moniker])
                next == retrieveNextVertexId(w.currentId)
            IN IF ~IsDef(next) THEN [w EXCEPT !.path = walked, !.visited = seen, !.done = TRUE]
               ELSE [w EXCEPT !.path = walked, !.visited = seen, !.currentId = Val(next)]

\* an iteration of the do-while loop of getResultForId
getResultForIdStep(w) ==
    LET result == retrieveByEdge(w.currentId, w.label)
        next == retrieveNextVertexId(w.currentId)
        seen == Append(w.visited, w.currentId)
    IN IF result # <<>>
       THEN [w EXCEPT !.result = Def([value |-> decompress(result[1].value), moniker |-> Undef]),
                      !.visited = seen, !.done = TRUE]
       ELSE IF ~IsDef(next) THEN [w EXCEPT !.visited = seen, !.done = TRUE]
            ELSE [w EXCEPT !.visited = seen, !.currentId = Val(next)]

UniqueMapping ==
    [document |-> 1000, project |-> 2000, group |-> 3000, scheme |-> 4000, global |-> 5000]

\* getMostUniqueMoniker: the first moniker of the highest uniqueness level
RECURSIVE getMostUniqueMonikerLoop(_, _, _)
getMostUniqueMonikerLoop(list, i, best) ==
    IF i > Len(list) THEN best
    ELSE IF UniqueMapping[list[i].unique] > UniqueMapping[best.unique]
         THEN getMostUniqueMonikerLoop(list, i + 1, list[i])
         ELSE getMostUniqueMonikerLoop(list, i + 1, best)

getMostUniqueMoniker(list) ==
    IF Len(list) = 0 THEN Undef ELSE Def(getMostUniqueMonikerLoop(list, 2, list[1]))

\* ------------------------------------------------------------------------
\* DedupeArray
\* ------------------------------------------------------------------------
\* a DedupeArray: the list, the set of stored keys and, as history, every
\* value handed to push
DedupeArray == [value |-> <<>>, stored |-> {}, pushed |-> <<>>]

\* Locations.makeKey / Monikers.makeKey: the digest of the listed properties
LocationsMakeKey(location) ==
    <<location.uri, location.range.start.line, location.range.start.character,
      location.range.end.line, location.range.end.character>>

MonikersMakeKey(moniker) == <<moniker.scheme, moniker.identifier>>

pushAlways(array, value, key) ==
    [value |-> Append(array.value, value), stored |-> array.stored \cup {key},
     pushed |-> Append(array.pushed, value)]

\* DedupeArray.push: append the value unless its key is stored
push(array, value, key) ==
    IF key \notin array.stored
    THEN [value |-> Append(array.value, value), stored |-> array.stored \cup {key},
          pushed |-> Append(array.pushed, value)]
    ELSE [array EXCEPT !.pushed = Append(array.pushed, value)]

\* ------------------------------------------------------------------------
\* GraphStore: queries
\* ------------------------------------------------------------------------
sameRange(a, b) ==
    /\ a.startLine = b.startLine
    /\ a.startCharacter = b.startCharacter
    /\ a.endLine = b.endLine
    /\ a.endCharacter = b.endCharacter

\* the loop of findRangesFromPosition over the rows from index i down to 0
RECURSIVE findRangesLoop(_, _, _, _)
findRangesLoop(dbResult, i, found, belongsTo) ==
    IF i < 0 THEN found
    ELSE LET candidate == dbResult[i + 1]
             last == dbResult[Len(dbResult)]
         IN IF candidate.belongsTo \notin belongsTo /\ sameRange(last, candidate)
            THEN findRangesLoop(dbResult, i - 1, Append(found, candidate), belongsTo)
            ELSE found

\* findRangesFromPosition: the last row of the statement's result, then the
\* loop, which starts at index result.length - 2 (indices count from 0)
findRangesFromPosition(uri, position) ==
    LET dbResult == findRangesStmt(uri, position) IN
    IF Len(dbResult) = 0 THEN Undef
    ELSE LET last == dbResult[Len(dbResult)]
             found == <<last>>
         IN Def(findRangesLoop(dbResult, Len(found) - 2, found, {last.belongsTo}))

\* findMatchingMonikers: the other monikers with the scheme and identifier
findMatchingMonikers(moniker) ==
    LET rows == SelectSeq(db.monikers, LAMBDA m :
                    /\ m.identifier = moniker.identifier
                    /\ m.scheme = moniker.scheme
                    /\ m.id # moniker.id)
        joined == JoinOn(rows, "id", db.vertices)
    IN [i \in 1..Len(joined) |-> decompress(joined[i].target.value)]

\* findAttachedMonikers: the vertices with an attach edge to the moniker
findAttachedMonikers(moniker) ==
    LET joined == JoinOn(SelectSeq(db.edges, LAMBDA e : e.inV = moniker.id /\ e.label = "attach"),
                         "outV", db.vertices)
    IN [i \in 1..Len(joined) |-> decompress(joined[i].target.value)]

\* findVerticesForMoniker: follow the attach edges from the moniker to their
\* end, then the vertices with a moniker edge to it
RECURSIVE attachEnd(_)
attachEnd(currentId) ==
    LET target == SelectSeq(db.edges, LAMBDA e : e.outV = currentId /\ e.label = "attach")
    IN IF target = <<>> THEN currentId ELSE attachEnd(target[1].inV)

findVerticesForMoniker(moniker) ==
    LET joined == JoinOn(SelectSeq(db.edges, LAMBDA e :
                             e.label = "moniker" /\ e.inV = attachEnd(moniker.id)),
                         "outV", db.vertices)
    IN [i \in 1..Len(joined) |-> joined[i].target]

\* the rows of ranges joined with items and documents for one item source and
\* a set of properties, in the order of the items
itemRanges(id, properties) ==
    LET withRange == JoinOn(SelectSeq(db.items, LAMBDA i : i.outV = id /\ i.property \in properties),
                            "inV", db.ranges)
        ranges == [i \in 1..Len(withRange) |->
                      [id |-> withRange[i].target.id,
                       belongsTo |-> withRange[i].target.belongsTo,
                       startLine |-> withRange[i].target.startLine,
                       startCharacter |-> withRange[i].target.startCharacter,
                       endLine |-> withRange[i].target.endLine,
                       endCharacter |-> withRange[i].target.endCharacter,
                       property |-> withRange[i].row.property]]
        withDocument == JoinOn(ranges, "belongsTo", db.documents)
    IN [i \in 1..Len(withDocument) |->
           [id |-> withDocument[i].row.id,
            startLine |-> withDocument[i].row.startLine,
            startCharacter |-> withDocument[i].row.startCharacter,
            endLine |-> withDocument[i].row.endLine,
            endCharacter |-> withDocument[i].row.endCharacter,
            property |-> withDocument[i].row.property,
            uri |-> withDocument[i].target.uri]]

ItemProperties == {"none", "declarations", "definitions", "references",
                   "referenceResults", "referenceLinks"}

\* createLocation
createLocation(data) ==
    Location(fromDatabase(data.uri),
             Span(data.startLine, data.startCharacter, data.endLine, data.endCharacter))

\* GraphStore.addLocation
gsAddLocation(result, value) ==
    LET location == createLocation(value)
    IN push(result, location, LocationsMakeKey(location))

RECURSIVE gsAddLocations(_, _)
gsAddLocations(result, rows) ==
    IF rows = <<>> THEN result
    ELSE gsAddLocations(gsAddLocation(result, Head(rows)), Tail(rows))

\* retrieveLocationsFromResult: the ranges the items of the result lead to
retrieveLocationsFromResult(result, target) ==
    gsAddLocations(result, itemRanges(target.id, ItemProperties))

RECURSIVE pushMonikers(_, _)
pushMonikers(array, list) ==
    IF list = <<>> THEN array
    ELSE pushMonikers(push(array, Head(list), MonikersMakeKey(Head(list))), Tail(list))

EdgeLabels == [declaration |-> "textDocument/declaration",
               definition |-> "textDocument/definition",
               refs |-> "textDocument/references"]

\* the loops of _findTargets: over the vertices of a matching moniker, over
\* the matching monikers of a moniker, over the monikers
RECURSIVE targetsOfVertices(_, _, _)
targetsOfVertices(result, owners, edgeLabel) ==
    IF owners = <<>> THEN result
    ELSE LET resultPath == getResultPath(Head(owners).id, edgeLabel)
         IN targetsOfVertices(
                IF IsDef(resultPath.result)
                THEN retrieveLocationsFromResult(result, Val(resultPath.result).value)
                ELSE result,
                Tail(owners), edgeLabel)

RECURSIVE targetsOfMatching(_, _, _)
targetsOfMatching(result, matchingMonikers, edgeLabel) ==
    IF matchingMonikers = <<>> THEN result
    ELSE targetsOfMatching(
             targetsOfVertices(result, findVerticesForMoniker(Head(matchingMonikers)), edgeLabel),
             Tail(matchingMonikers), edgeLabel)

RECURSIVE targetsOfMonikers(_, _, _)
targetsOfMonikers(result, monikers, edgeLabel) ==
    IF monikers = <<>> THEN result
    ELSE targetsOfMonikers(
             targetsOfMatching(result, findMatchingMonikers(Head(monikers)), edgeLabel),
             Tail(monikers), edgeLabel)

\* _findTargets: nothing without a local result; else the local locations,
\* then those of the monikers matching the closest moniker and its attached
\* ones (sort() without a comparator leaves a list of objects in its order)
findTargetsOfRange(result, rangeRow, edgeLabel) ==
    LET resultPath == getResultPath(rangeRow.id, edgeLabel) IN
    IF ~IsDef(resultPath.result) THEN result
    ELSE LET local == retrieveLocationsFromResult(result, Val(resultPath.result).value)
             mostSpecificMoniker == getClosestMoniker(resultPath)
             monikers ==
                 IF IsDef(mostSpecificMoniker)
                 THEN pushMonikers(push(DedupeArray, Val(mostSpecificMoniker),
                                        MonikersMakeKey(Val(mostSpecificMoniker))),
                                   findAttachedMonikers(Val(mostSpecificMoniker)))
                 ELSE DedupeArray
         IN targetsOfMonikers(local, monikers.value, edgeLabel)

RECURSIVE findTargetsOfRanges(_, _, _)
findTargetsOfRanges(result, rangeRows, edgeLabel) ==
    IF rangeRows = <<>> THEN result
    ELSE findTargetsOfRanges(findTargetsOfRange(result, Head(rangeRows), edgeLabel),
                             Tail(rangeRows), edgeLabel)

\* findTargets: undefined without a range, else the DedupeArray of locations
findTargets(uri, position, edgeLabel) ==
    LET found == findRangesFromPosition(toDatabase(uri), position) IN
    IF ~IsDef(found) THEN Undef
    ELSE Def(findTargetsOfRanges(DedupeArray, Val(found), edgeLabel))

\* the vertices the items of a property lead to from a reference result
itemVertices(id, property) ==
    LET joined == JoinOn(SelectSeq(db.items, LAMBDA i : i.outV = id /\ i.property = property),
                         "inV", db.vertices)
    IN [i \in 1..Len(joined) |-> decompress(joined[i].target.value)]

\* the loop of resolveReferenceResult over the item rows: a row is emitted when
\* its property is references or declarations are asked for
emittedItemsAll(qr, includeDeclaration) == qr

emittedItems(qr, includeDeclaration) ==
    SelectSeq(qr, LAMBDA item : item.property = "references" \/ includeDeclaration)

\* GraphStore.resolveReferenceResult: the ranges of the result (declarations
\* and definitions on request), its link monikers, then its nested results;
\* st.resolved is the history of the results resolved
RECURSIVE gsResolveReferenceResult(_, _, _)
RECURSIVE gsResolveReferenceResults(_, _, _)
gsResolveReferenceResult(st, referenceResult, includeDeclaration) ==
    LET qr == itemRanges(referenceResult.id, {"declarations", "definitions", "references"})
        emitted == emittedItems(qr, includeDeclaration)
        mr == itemVertices(referenceResult.id, "referenceLinks")
        rqr == itemVertices(referenceResult.id, "referenceResults")
    IN gsResolveReferenceResults(
           [result |-> gsAddLocations(st.result, emitted),
            monikers |-> pushMonikers(st.monikers, mr),
            resolved |-> Append(st.resolved, referenceResult.id)],
           rqr, includeDeclaration)

gsResolveReferenceResults(st, nested, includeDeclaration) ==
    IF nested = <<>> THEN st
    ELSE gsResolveReferenceResults(
             gsResolveReferenceResult(st, Head(nested), includeDeclaration),
             Tail(nested), includeDeclaration)

\* the loops of findReferences: over the vertices of a matching moniker, over
\* the matching monikers, and over the moniker set, which grows while the loop
\* runs
RECURSIVE referencesOfVertices(_, _, _)
referencesOfVertices(st, owners, includeDeclaration) ==
    IF owners = <<>> THEN st
    ELSE LET resultPath == getResultPath(Head(owners).id, EdgeLabels.refs)
         IN referencesOfVertices(
                IF IsDef(resultPath.result)
                THEN gsResolveReferenceResult(st, Val(resultPath.result).value, includeDeclaration)
                ELSE st,
                Tail(owners), includeDeclaration)

RECURSIVE referencesOfMatching(_, _, _)
referencesOfMatching(st, matchingMonikers, includeDeclaration) ==
    IF matchingMonikers = <<>> THEN st
    ELSE referencesOfMatching(
             referencesOfVertices(st, findVerticesForMoniker(Head(matchingMonikers)), includeDeclaration),
             Tail(matchingMonikers), includeDeclaration)

RECURSIVE referencesOfMonikers(_, _, _)
referencesOfMonikers(st, index, includeDeclaration) ==
    IF index > Len(st.monikers.value) THEN st
    ELSE LET moniker == st.monikers.value[index] IN
         IF moniker.kind = "local"
         THEN referencesOfMonikers(st, index + 1, includeDeclaration)
         ELSE referencesOfMonikers(
                  referencesOfMatching(st, findMatchingMonikers(moniker), includeDeclaration),
                  index + 1, includeDeclaration)

\* findReferences: nothing without a local result; else the most unique of the
\* closest moniker and its attached ones joins the set, the local result is
\* resolved, then the results behind every moniker of the set
findReferences(st, rangeRow, includeDeclaration) ==
    LET resultPath == getResultPath(rangeRow.id, EdgeLabels.refs) IN
    IF ~IsDef(resultPath.result) THEN st
    ELSE LET moniker == getClosestMoniker(resultPath)
             monikers ==
                 IF IsDef(moniker)
                 THEN LET unique == Val(getMostUniqueMoniker(
                                        findAttachedMonikers(Val(moniker)) \o <<Val(moniker)>>))
                      IN push(st.monikers, unique, MonikersMakeKey(unique))
                 ELSE st.monikers
         IN referencesOfMonikers(
                gsResolveReferenceResult([result |-> st.result, monikers |-> monikers,
                                          resolved |-> st.resolved],
                                         Val(resultPath.result).value, includeDeclaration),
                1, includeDeclaration)

RECURSIVE findReferencesOfRanges(_, _, _)
findReferencesOfRanges(st, rangeRows, includeDeclaration) ==
    IF rangeRows = <<>> THEN st
    ELSE findReferencesOfRanges(findReferences(st, Head(rangeRows), includeDeclaration),
                                Tail(rangeRows), includeDeclaration)

\* GraphStore.references: undefined without a range, else the DedupeArray of
\* locations
gsReferencesState(uri, position, includeDeclaration) ==
    LET found == findRangesFromPosition(toDatabase(uri), position) IN
    IF ~IsDef(found) THEN Undef
    ELSE Def(findReferencesOfRanges([result |-> DedupeArray, monikers |-> DedupeArray,
                                     resolved |-> <<>>],
                                    Val(found), includeDeclaration))

gsReferences(uri, position, includeDeclaration) ==
    LET st == gsReferencesState(uri, position, includeDeclaration) IN
    IF ~IsDef(st) THEN Undef ELSE Def(Val(st).result)

\* ------------------------------------------------------------------------
\* GraphStore.references, the variant with a Set of range ids
\* ------------------------------------------------------------------------
\* getResultForId: the loop run to its return
RECURSIVE getResultForIdLoop(_)
getResultForIdLoop(w) == IF w.done THEN w ELSE getResultForIdLoop(getResultForIdStep(w))

getResultForId(id, label) ==
    LET w == getResultForIdLoop(Walk("getResultForId", id, label))
    IN [result |-> IF IsDef(w.result) THEN Def(Val(w.result).value) ELSE Undef,
        anchorId |-> w.currentId]

\* Map.set on the moniker map, a list in insertion order: a new id is
\* appended, a known one keeps its place
monikersSet(monikers, moniker) ==
    IF \E i \in 1..Len(monikers) : monikers[i].id = moniker.id
    THEN [i \in 1..Len(monikers) |->
             IF monikers[i].id = moniker.id THEN moniker ELSE monikers[i]]
    ELSE Append(monikers, moniker)

RECURSIVE monikersSetAll(_, _)
monikersSetAll(monikers, list) ==
    IF list = <<>> THEN monikers
    ELSE monikersSetAll(monikersSet(monikers, Head(list)), Tail(list))

\* the loop of resolveReferenceResult over the item rows; st.emitted is the
\* history of the range ids whose location was pushed
RECURSIVE dedupItems(_, _, _)
dedupItems(st, qr, includeDeclaration) ==
    IF qr = <<>> THEN st
    ELSE LET item == Head(qr)
         IN dedupItems(
                IF item.property = "references"
                   \/ (includeDeclaration /\ item.id \notin st.dedupRanges)
                THEN [st EXCEPT !.dedupRanges = @ \cup {item.id},
                                !.result = Append(@, createLocation(item)),
                                !.emitted = Append(@, item.id)]
                ELSE st,
                Tail(qr), includeDeclaration)

\* the loop of resolveReferenceResult over the cascade monikers: a moniker
\* joins the map unless its id is known
RECURSIVE dedupCascades(_, _)
dedupCascades(monikers, mr) ==
    IF mr = <<>> THEN monikers
    ELSE dedupCascades(
             IF \E i \in 1..Len(monikers) : monikers[i].id = Head(mr).id
             THEN monikers ELSE Append(monikers, Head(mr)),
             Tail(mr))

\* resolveReferenceResult of the variant: the ranges of the result, its
\* cascade monikers, then its nested results
RECURSIVE dedupResolveReferenceResult(_, _, _)
RECURSIVE dedupResolveReferenceResults(_, _, _)
dedupResolveReferenceResult(st, referenceResult, includeDeclaration) ==
    LET qr == itemRanges(referenceResult.id, {"declarations", "definitions", "references"})
        mr == itemVertices(referenceResult.id, "referenceLinks")
        rqr == itemVertices(referenceResult.id, "referenceResults")
        emitted == dedupItems(st, qr, includeDeclaration)
    IN dedupResolveReferenceResults(
           [emitted EXCEPT !.monikers = dedupCascades(@, mr),
                           !.resolved = Append(@, referenceResult.id)],
           rqr, includeDeclaration)

dedupResolveReferenceResults(st, nested, includeDeclaration) ==
    IF nested = <<>> THEN st
    ELSE dedupResolveReferenceResults(
             dedupResolveReferenceResult(st, Head(nested), includeDeclaration),
             Tail(nested), includeDeclaration)

\* the do-while loop of findMonikersForVertex: the moniker of the first
\* vertex, walking the next edges backwards, that has one
RECURSIVE findMonikerBackwards(_)
findMonikerBackwards(currentId) ==
    LET moniker == retrieveByEdge(currentId, "moniker")
        previous == SelectSeq(db.edges, LAMBDA e : e.inV = currentId /\ e.label = "next")
    IN IF moniker # <<>> THEN Def(decompress(moniker[1].value))
       ELSE IF previous = <<>> THEN Undef
            ELSE findMonikerBackwards(previous[1].outV)

\* findMonikersForVertex: that moniker and the monikers attached to it
findMonikersForVertex(monikers, id) ==
    LET moniker == findMonikerBackwards(id)
    IN IF ~IsDef(moniker) THEN monikers
       ELSE monikersSetAll(monikersSet(monikers, Val(moniker)),
                           findAttachedMonikers(Val(moniker)))

\* findVertexIdForMoniker: follow the attach edges from the moniker to their
\* end, then the first vertex with a moniker edge to it
findVertexIdForMoniker(moniker) ==
    LET owners == findVerticesForMoniker(moniker)
    IN IF owners = <<>> THEN Undef ELSE Def(owners[1].id)

\* the loops of findReferences of the variant: over the matching monikers of
\* a moniker and over the values of the moniker map, which grows while the
\* loop runs
RECURSIVE dedupReferencesOfMatching(_, _, _)
dedupReferencesOfMatching(st, matchingMonikers, includeDeclaration) ==
    IF matchingMonikers = <<>> THEN st
    ELSE LET vertexId == findVertexIdForMoniker(Head(matchingMonikers))
             found == IF IsDef(vertexId)
                      THEN getResultForId(Val(vertexId), EdgeLabels.refs).result ELSE Undef
         IN dedupReferencesOfMatching(
                IF IsDef(found)
                THEN dedupResolveReferenceResult(st, Val(found), includeDeclaration) ELSE st,
                Tail(matchingMonikers), includeDeclaration)

RECURSIVE dedupReferencesOfMonikers(_, _, _)
dedupReferencesOfMonikers(st, index, includeDeclaration) ==
    IF index > Len(st.monikers) THEN st
    ELSE LET moniker == st.monikers[index] IN
         IF moniker.kind = "local"
         THEN dedupReferencesOfMonikers(st, index + 1, includeDeclaration)
         ELSE dedupReferencesOfMonikers(
                  dedupReferencesOfMatching(st, findMatchingMonikers(moniker), includeDeclaration),
                  index + 1, includeDeclaration)

\* findReferences of the variant
dedupFindReferences(st, rangeRow, includeDeclaration) ==
    LET found == getResultForId(rangeRow.id, EdgeLabels.refs) IN
    IF ~IsDef(found.result) THEN st
    ELSE LET resolved == dedupResolveReferenceResult(st, Val(found.result), includeDeclaration)
         IN dedupReferencesOfMonikers(
                [resolved EXCEPT !.monikers = findMonikersForVertex(@, found.anchorId)],
                1, includeDeclaration)

RECURSIVE dedupFindReferencesOfRanges(_, _, _)
dedupFindReferencesOfRanges(st, rangeRows, includeDeclaration) ==
    IF rangeRows = <<>> THEN st
    ELSE dedupFindReferencesOfRanges(dedupFindReferences(st, Head(rangeRows), includeDeclaration),
                                     Tail(rangeRows), includeDeclaration)

\* GraphStore.references of the variant: undefined without a range, else the
\* locations with the history of the call
dedupReferences(uri, position, includeDeclaration) ==
    LET found == findRangesFromPosition(toDatabase(uri), position) IN
    IF ~IsDef(found) THEN Undef
    ELSE Def(dedupFindReferencesOfRanges(
                 [result |-> <<>>, emitted |-> <<>>, dedupRanges |-> {}, monikers |-> <<>>,
                  resolved |-> <<>>],
                 Val(found), includeDeclaration))

\* ------------------------------------------------------------------------
\* The loop of findReferences over the moniker set, one iteration at a time
\* ------------------------------------------------------------------------
\* an iterator that is done behind the first value
iteratorNextFirst(array, index) ==
    IF index < 1 /\ index < Len(array.value)
    THEN [value |-> Def(array.value[index + 1]), done |-> FALSE]
    ELSE [value |-> Undef, done |-> TRUE]

\* next of the iterator of a DedupeArray (indices count from 0)
iteratorNext(array, index) ==
    IF index < Len(array.value)
    THEN [value |-> Def(array.value[index + 1]), done |-> FALSE]
    ELSE [value |-> Undef, done |-> TRUE]

\* findReferences up to its loop: nothing without a local result; else the
\* most unique of the closest moniker and its attached ones joins the set and
\* the local result is resolved
findReferencesEnter(st, rangeRow, includeDeclaration) ==
    LET resultPath == getResultPath(rangeRow.id, EdgeLabels.refs) IN
    IF ~IsDef(resultPath.result) THEN [entered |-> FALSE, st |-> st]
    ELSE LET moniker == getClosestMoniker(resultPath)
             monikers ==
                 IF IsDef(moniker)
                 THEN LET unique == Val(getMostUniqueMoniker(
                                        findAttachedMonikers(Val(moniker)) \o <<Val(moniker)>>))
                      IN push(st.monikers, unique, MonikersMakeKey(unique))
                 ELSE st.monikers
         IN [entered |-> TRUE,
             st |-> gsResolveReferenceResult([result |-> st.result, monikers |-> monikers,
                                              resolved |-> st.resolved],
                                             Val(resultPath.result).value, includeDeclaration)]

\* the body of the loop for one moniker of the set
monikerLoopBody(st, moniker, includeDeclaration) ==
    IF moniker.kind = "local" THEN st
    ELSE referencesOfMatching(st, findMatchingMonikers(moniker), includeDeclaration)

\* ------------------------------------------------------------------------
\* Specification of the containment tests
\* ------------------------------------------------------------------------
InitRange ==
    /\ gContains = <<>>
    /\ gCandidate = undefined
    /\ gPosition \in Positions
    /\ gRange \in Spans
    /\ gOtherRange \in Spans
    /\ gAnswer = FALSE
    /\ gOp = "init"
    /\ NonGeomIdle

ContainsPosition ==
    /\ gOp = "init"
    /\ gAnswer' = containsPosition(gRange, gPosition)
    /\ gOp' = "containsPosition"
    /\ UNCHANGED <<gContains, gPosition, gCandidate, gRange, gOtherRange, nonGeomVars>>

ContainsRange ==
    /\ gOp = "init"
    /\ gAnswer' = containsRange(gRange, gOtherRange)
    /\ gOp' = "containsRange"
    /\ UNCHANGED <<gContains, gPosition, gCandidate, gRange, gOtherRange, nonGeomVars>>

NextRange == ContainsPosition \/ ContainsRange

SpecRange == InitRange /\ [][NextRange]_vars

\* ------------------------------------------------------------------------
\* Specification of findRangeFromPosition
\* ------------------------------------------------------------------------
InitFind ==
    /\ gContains = <<>>
    /\ gPosition \in Positions \cup {ExampleP}
    /\ gCandidate = undefined
    /\ gRange = Span(0, 0, 0, 0)
    /\ gOtherRange = Span(0, 0, 0, 0)
    /\ gAnswer = FALSE
    /\ gOp = "init"
    /\ NonGeomIdle

\* the spans a document's ranges are drawn from; the example's spans are used
\* with the example's position
SpanChoices == IF gPosition = ExampleP THEN {ExampleA, ExampleB} ELSE Spans

\* a `contains` edge of the document is processed: its target vertex is
\* appended to the document's contains list
AddContains ==
    /\ gOp = "init"
    /\ Len(gContains) < MaxLen
    /\ \E v \in {RangeVertex(Len(gContains) + 1, s) : s \in SpanChoices}
                \cup {OtherVertex(Len(gContains) + 1)} :
          gContains' = Append(gContains, v)
    /\ UNCHANGED <<gPosition, gCandidate, gRange, gOtherRange, gAnswer, gOp, nonGeomVars>>

FindRangeFromPosition ==
    /\ gOp = "init"
    /\ gCandidate' = findRangeInContains(gContains, gPosition)
    /\ gOp' = "findRangeFromPosition"
    /\ UNCHANGED <<gContains, gPosition, gRange, gOtherRange, gAnswer, nonGeomVars>>

NextFind == AddContains \/ FindRangeFromPosition

SpecFind == InitFind /\ [][NextFind]_vars

\* ------------------------------------------------------------------------
\* JsonDatabase: actions
\* ------------------------------------------------------------------------
\* the edge is already in the adjacency maps (a stream holds an edge once)
EdgePresent(edge) ==
    /\ Has(vertices.all, edge.outV)
    /\ Has(vertices.all, edge.inV)
    /\ CASE edge.label = "contains" ->
              /\ Has(out.contains, edge.outV)
              /\ \E i \in 1..Len(out.contains[edge.outV]) : out.contains[edge.outV][i].id = edge.inV
         [] edge.label = "item" ->
              /\ Has(out.item, edge.outV)
              /\ \E i \in 1..Len(out.item[edge.outV]) :
                   /\ out.item[edge.outV][i].type = edge.property
                   /\ Val(itemTarget(edge, vertices.all[edge.inV])) = out.item[edge.outV][i]
         [] edge.label = "refersTo" -> Has(out.refersTo, edge.outV)
         [] edge.label = "textDocument/definition" -> Has(out.definition, edge.outV)
         [] edge.label = "textDocument/references" -> Has(out.references, edge.outV)
         [] edge.label = "textDocument/documentSymbol" -> Has(out.documentSymbol, edge.outV)
         [] OTHER -> FALSE

\* a `line` event carrying a vertex; the stream lists its vertices in the order
\* of `order`, one of the variants of each place
ProcessVertex(order) ==
    /\ jstate = "loading"
    /\ LET n == Cardinality(DOMAIN vertices.all) IN
         /\ n < Len(order)
         /\ \E vertex \in order[n + 1] : processVertex(vertex)
    /\ UNCHANGED nonJsonVars

\* a `line` event carrying an edge, at any point of the stream
ProcessEdge(edges) ==
    /\ jstate = "loading"
    /\ \E edge \in edges : ~EdgePresent(edge) /\ processEdge(edge)
    /\ UNCHANGED nonJsonVars

\* a close handler that resolves whatever the stream supplied
CloseResolves ==
    /\ jstate = "loading"
    /\ jstate' = "loaded"
    /\ jload' = [jload EXCEPT !.promise = "resolved", !.initialized = TRUE]
    /\ UNCHANGED <<vertices, indices, out, inn, jresult, nonJsonVars>>

\* the `close` event of the stream: the promise of load is rejected without
\* project root or without a version that satisfies 0.3.x, else it is resolved
\* and initialize runs
Close ==
    /\ jstate = "loading"
    /\ jstate' = "loaded"
    /\ jload' =
         IF ~IsDef(jload.projectRoot)
         THEN [jload EXCEPT !.promise = "rejected", !.reason = "No project root provided."]
         ELSE IF ~IsDef(jload.version)
         THEN [jload EXCEPT !.promise = "rejected", !.reason = "No version found."]
         ELSE IF ~IsDef(SemVerParse(Val(jload.version)))
         THEN [jload EXCEPT !.promise = "rejected", !.reason = "No valid semantic version string."]
         ELSE IF ~SemVerSatisfies(Val(SemVerParse(Val(jload.version))), "0.3.x")
         THEN [jload EXCEPT !.promise = "rejected", !.reason = "Requires version 0.3.x"]
         ELSE [jload EXCEPT !.promise = "resolved", !.initialized = TRUE]
    /\ UNCHANGED <<vertices, indices, out, inn, jresult, nonJsonVars>>

ResultLabels == {"references", "definition"}

\* getResult applied to a loaded range and the map of a result-edge label
GetResult ==
    /\ jstate = "loaded"
    /\ \E id \in DOMAIN vertices.ranges, label \in ResultLabels :
         jresult' = [op |-> "getResult", range |-> id, label |-> label,
                     value |-> getResult(vertices.ranges[id], out[label])]
    /\ UNCHANGED <<vertices, indices, out, inn, jstate, jload, nonJsonVars>>

QueryUris == {Uri("lsif", "a.ts"), Uri("lsif", "b.ts")}

QueryPositions == {Pos(0, 1)}

\* the reference result a references query starts from
referencesRoot(uri, position) ==
    LET r == findRangeFromPosition(toDatabase(uri), position) IN
    IF r = undefined THEN Undef
    ELSE LET referenceResult == getResult(r, out.references) IN
         IF IsDef(referenceResult) THEN Def(Val(referenceResult).id) ELSE Undef

\* the query repeats the one before it
SameQuery(uri, position, includeDeclaration) ==
    /\ jresult.op = "references"
    /\ jresult.uri = uri
    /\ jresult.position = position
    /\ jresult.includeDeclaration = includeDeclaration

\* a references query that drops the reference edge it has answered from
ReferencesConsuming ==
    /\ jstate = "loaded"
    /\ \E uri \in QueryUris, position \in QueryPositions, includeDeclaration \in BOOLEAN :
         LET r == references(uri, position, includeDeclaration) IN
         jresult' = [op |-> "references", uri |-> uri, position |-> position,
                     includeDeclaration |-> includeDeclaration,
                     root |-> referencesRoot(uri, position), closed |-> jload.closed,
                     repeated |-> SameQuery(uri, position, includeDeclaration),
                     value |-> r.value, error |-> r.error]
    /\ out' = [out EXCEPT !.references = <<>>]
    /\ UNCHANGED <<vertices, indices, inn, jstate, jload, nonJsonVars>>

\* JsonDatabase.references
References ==
    /\ jstate = "loaded"
    /\ \E uri \in QueryUris, position \in QueryPositions, includeDeclaration \in BOOLEAN :
         LET r == references(uri, position, includeDeclaration) IN
         jresult' = [op |-> "references", uri |-> uri, position |-> position,
                     includeDeclaration |-> includeDeclaration,
                     root |-> referencesRoot(uri, position), closed |-> jload.closed,
                     repeated |-> SameQuery(uri, position, includeDeclaration),
                     value |-> r.value, error |-> r.error]
    /\ UNCHANGED <<vertices, indices, out, inn, jstate, jload, nonJsonVars>>

\* JsonDatabase.close: the body is empty; closed only notes that it was called
JsonClose ==
    /\ jstate = "loaded"
    /\ ~jload.closed
    /\ jload' = [jload EXCEPT !.closed = TRUE]
    /\ UNCHANGED <<vertices, indices, out, inn, jstate, jresult, nonJsonVars>>

\* ------------------------------------------------------------------------
\* Specification of getResult: a range, two result sets and two results
\* ------------------------------------------------------------------------
ChainOrder ==
    << {RangeVertex("r1", Span(0, 0, 0, 1))},
       {ResultSetVertex("s1")},
       {ResultSetVertex("s2")},
       {ReferenceResultVertex("x1", Undef, Undef, Undef, Undef)},
       {[id |-> "q1", label |-> "definitionResult", result |-> <<IdItem("r1")>>]} >>

ChainEdges ==
    {Edge("refersTo", "r1", "s1"), Edge("refersTo", "s1", "s2")}
    \cup {Edge("textDocument/references", v, "x1") : v \in {"r1", "s1", "s2"}}
    \cup {Edge("textDocument/definition", v, "q1") : v \in {"r1", "s1", "s2"}}

InitJsonChain == InitJson /\ NonJsonIdle

NextJsonChain ==
    \/ ProcessVertex(ChainOrder)
    \/ ProcessEdge(ChainEdges)
    \/ Close
    \/ GetResult

SpecJsonChain == InitJsonChain /\ [][NextJsonChain]_vars

\* ------------------------------------------------------------------------
\* Specification of references: a document, two ranges, two reference results
\* ------------------------------------------------------------------------
InlineLocation == Location(Uri("lsif", "c.ts"), Span(0, 0, 0, 0))

X1Variants ==
    { ReferenceResultVertex("x1", Undef, Undef, Undef, Undef),
      ReferenceResultVertex("x1", Def(<<IdItem("r1"), InlineLocation>>), Undef, Undef, Def(<<"x2">>)),
      ReferenceResultVertex("x1", Def(<<IdItem("r1")>>), Def(<<IdItem("r2")>>), Undef, Undef),
      ReferenceResultVertex("x1", Undef, Undef, Def(<<IdItem("r2")>>), Undef) }

X2Variants ==
    { ReferenceResultVertex("x2", Undef, Undef, Undef, Undef),
      ReferenceResultVertex("x2", Def(<<IdItem("r1"), IdItem("r2")>>), Undef, Undef, Undef) }

RefsOrder ==
    << {DocumentVertex("d1", Uri("project", "a.ts"))},
       {RangeVertex("r1", Span(0, 0, 0, 1))},
       {RangeVertex("r2", Span(1, 0, 1, 1))},
       X1Variants,
       X2Variants >>

RefsEdges ==
    { Edge("contains", "d1", "r1"), Edge("contains", "d1", "r2"),
      Edge("textDocument/references", "r1", "x1"),
      ItemEdge("x1", "r1", "references"),
      ItemEdge("x1", "r2", "declarations"),
      ItemEdge("x1", "r2", "definitions"),
      ItemEdge("x1", "x2", "referenceResults"),
      ItemEdge("x2", "r1", "references"),
      ItemEdge("x2", "r2", "references") }

InitJsonRefs == InitJson /\ NonJsonIdle

NextJsonRefs ==
    \/ ProcessVertex(RefsOrder)
    \/ ProcessEdge(RefsEdges)
    \/ Close
    \/ References

SpecJsonRefs == InitJsonRefs /\ [][NextJsonRefs]_vars

\* ------------------------------------------------------------------------
\* Specification of the GraphStore queries: documents a.ts and b.ts, an
\* optional second document row for b.ts, result sets with monikers
\* ------------------------------------------------------------------------
MonikerChoices == {"none", "import", "local", "other"}

CopyChoices == {"none", "before", "after"}

\* what varies between the databases: whether the result set of b.ts has its
\* own definition / reference result, which moniker it carries, whether its
\* results also list ranges of a.ts, where the rows of the second copy of
\* b.ts stand, and whether a wider range encloses the queried one
DbOptions == [localDef : BOOLEAN, localRef : BOOLEAN, moniker : MonikerChoices,
              shared : BOOLEAN, copy : CopyChoices, outer : BOOLEAN]

UriA == Uri("project", "a.ts")

UriB == Uri("project", "b.ts")

MonikerA == CompressedMoniker("ma", "tsc", "foo", "export", "project")

MonikerB(o) ==
    CompressedMoniker("mb", "tsc", IF o.moniker = "other" THEN "bar" ELSE "foo",
                      IF o.moniker = "local" THEN "local" ELSE "import", "project")

When(cond, rows) == IF cond THEN rows ELSE <<>>

Database(o) ==
    [documents |->
        <<DocumentRow("dA", UriA), DocumentRow("dB", UriB)>>
        \o When(o.copy # "none", <<DocumentRow("dB2", UriB)>>),
     ranges |->
        When(o.outer, <<RangeRow("ro", "dB", Span(0, 0, 1, 1))>>)
        \o When(o.copy = "before", <<RangeRow("rb2", "dB2", Span(0, 0, 0, 1))>>)
        \o <<RangeRow("rb", "dB", Span(0, 0, 0, 1))>>
        \o When(o.copy = "after", <<RangeRow("rb2", "dB2", Span(0, 0, 0, 1))>>)
        \o <<RangeRow("ra", "dA", Span(0, 0, 0, 1)), RangeRow("rc", "dA", Span(1, 0, 1, 1)),
             RangeRow("rd", "dA", Span(1, 1, 1, 1))>>,
     vertices |->
        <<VertexRow(CompressedVertex("resultSet", "sa")),
          VertexRow(CompressedVertex("resultSet", "sb")),
          VertexRow(MonikerA), VertexRow(MonikerB(o)),
          VertexRow(CompressedVertex("definitionResult", "qa")),
          VertexRow(CompressedVertex("definitionResult", "qb")),
          VertexRow(CompressedVertex("definitionResult", "q2")),
          VertexRow(CompressedVertex("referenceResult", "xa")),
          VertexRow(CompressedVertex("referenceResult", "xb")),
          VertexRow(CompressedVertex("referenceResult", "x2"))>>,
     monikers |-> <<MonikerRow(MonikerA), MonikerRow(MonikerB(o))>>,
     edges |->
        <<EdgeRow("ra", "next", "sa"), EdgeRow("rb", "next", "sb"),
          EdgeRow("sa", "moniker", "ma"),
          EdgeRow("sa", EdgeLabels.definition, "qa"),
          EdgeRow("sa", EdgeLabels.refs, "xa")>>
        \o When(o.moniker # "none", <<EdgeRow("sb", "moniker", "mb")>>)
        \o When(o.localDef, <<EdgeRow("sb", EdgeLabels.definition, "qb")>>)
        \o When(o.localRef, <<EdgeRow("sb", EdgeLabels.refs, "xb")>>)
        \o When(o.copy # "none", <<EdgeRow("rb2", EdgeLabels.definition, "q2"),
                                   EdgeRow("rb2", EdgeLabels.refs, "x2")>>),
     items |->
        <<ItemRow("qa", "ra", "none"),
          ItemRow("xa", "ra", "definitions"), ItemRow("xa", "rc", "references"),
          ItemRow("xa", "rd", "declarations"),
          ItemRow("qb", "rb", "none"), ItemRow("xb", "rb", "references"),
          ItemRow("q2", "rc", "none"), ItemRow("x2", "rc", "references")>>
        \o When(o.shared, <<ItemRow("qb", "ra", "none"), ItemRow("xb", "rc", "references")>>)]

InitGraph ==
    /\ NonGraphIdle
    /\ db \in {Database(o) : o \in DbOptions}
    /\ gsResult = NoResult

GraphUris == {Uri("lsif", "a.ts"), Uri("lsif", "b.ts")}

GraphPositions == {Pos(0, 0), Pos(1, 0)}

\* the record of a query: what was asked, the ranges the position resolved
\* to, the returned list, every location handed to the result's push and the
\* reference results resolved on the way
Answer(op, uri, position, includeDeclaration, result) ==
    [op |-> op, uri |-> uri, position |-> position,
     includeDeclaration |-> includeDeclaration,
     ranges |-> findRangesFromPosition(toDatabase(uri), position),
     value |-> IF IsDef(result) THEN Def(Val(result).value) ELSE Undef,
     pushed |-> IF IsDef(result) THEN Val(result).pushed ELSE <<>>,
     resolved |-> IF op = "references"
                  THEN LET st == gsReferencesState(uri, position, includeDeclaration)
                       IN IF IsDef(st) THEN Val(st).resolved ELSE <<>>
                  ELSE <<>>]

\* GraphStore.declarations
Declarations ==
    /\ \E uri \in GraphUris, position \in GraphPositions :
         gsResult' = Answer("declarations", uri, position, FALSE,
                            findTargets(uri, position, EdgeLabels.declaration))
    /\ UNCHANGED <<db, nonGraphVars>>

\* GraphStore.definitions
Definitions ==
    /\ \E uri \in GraphUris, position \in GraphPositions :
         gsResult' = Answer("definitions", uri, position, FALSE,
                            findTargets(uri, position, EdgeLabels.definition))
    /\ UNCHANGED <<db, nonGraphVars>>

\* GraphStore.references
GraphReferences ==
    /\ \E uri \in GraphUris, position \in GraphPositions, includeDeclaration \in BOOLEAN :
         gsResult' = Answer("references", uri, position, includeDeclaration,
                            gsReferences(uri, position, includeDeclaration))
    /\ UNCHANGED <<db, nonGraphVars>>

NextGraph == Declarations \/ Definitions \/ GraphReferences

SpecGraph == InitGraph /\ [][NextGraph]_vars

\* ------------------------------------------------------------------------
\* documentSymbols
\* ------------------------------------------------------------------------
\* a Range vertex with its tag (undefined or a tag with type, text and kind)
TaggedRange(id, span, tag) ==
    [id |-> id, label |-> "range", start |-> span.start, end |-> span.end, tag |-> tag]

\* an entry of a range based document symbol result
RangeBasedDocumentSymbol(id, children) == [id |-> id, children |-> children]

\* lsp.DocumentSymbol.create
DocumentSymbol(tag, selectionRange, children) ==
    [name |-> tag.text, detail |-> "", kind |-> tag.kind, range |-> tag.fullRange,
     selectionRange |-> selectionRange, children |-> children]

\* lsp.DocumentSymbol.is
IsDocumentSymbol(value) == "name" \in DOMAIN value

\* Database.asDocumentSymbol
asDocumentSymbol(range) ==
    IF ~IsDef(range.tag) \/ ~(Val(range.tag).type = "declaration" \/ Val(range.tag).type = "definition")
    THEN Undef
    ELSE Def(DocumentSymbol(Val(range.tag), asRange(range), Undef))

\* JsonDatabase.toDocumentSymbol that converts an entry whatever the type of its tag
RECURSIVE toDocumentSymbolAnyType(_)
toDocumentSymbolAnyType(value) ==
    LET range == vertices.ranges[value.id]
        RECURSIVE children(_, _)
        children(list, i) ==
            IF i > Len(list) THEN <<>>
            ELSE LET converted == toDocumentSymbolAnyType(list[i])
                 IN (IF IsDef(converted) THEN <<Val(converted)>> ELSE <<>>) \o children(list, i + 1)
    IN IF ~IsDef(range.tag) THEN Undef
       ELSE Def(DocumentSymbol(Val(range.tag), asRange(range),
                    IF IsDef(value.children) /\ Len(Val(value.children)) > 0
                    THEN Def(children(Val(value.children), 1)) ELSE Undef))

\* JsonDatabase.toDocumentSymbol
RECURSIVE toDocumentSymbol(_)
toDocumentSymbol(value) ==
    LET range == vertices.ranges[value.id]
        RECURSIVE children(_, _)
        children(list, i) ==
            IF i > Len(list) THEN <<>>
            ELSE LET converted == toDocumentSymbol(list[i])
                 IN (IF IsDef(converted) THEN <<Val(converted)>> ELSE <<>>) \o children(list, i + 1)
    IN IF ~IsDef(range.tag)
          \/ ~(Val(range.tag).type = "declaration" \/ Val(range.tag).type = "definition")
       THEN Undef
       ELSE Def(DocumentSymbol(Val(range.tag), asRange(range),
                    IF IsDef(value.children) /\ Len(Val(value.children)) > 0
                    THEN Def(children(Val(value.children), 1)) ELSE Undef))

\* JsonDatabase.documentSymbols
documentSymbols(uri) ==
    IF ~Has(indices.documents, toDatabase(uri)) THEN ReturnedUndefined
    ELSE LET document == indices.documents[toDatabase(uri)] IN
         IF ~Has(out.documentSymbol, document.id) \/ Len(out.documentSymbol[document.id].result) = 0
         THEN ReturnedUndefined
         ELSE LET list == out.documentSymbol[document.id].result
                  RECURSIVE convert(_)
                  convert(i) ==
                      IF i > Len(list) THEN <<>>
                      ELSE LET converted == toDocumentSymbol(list[i])
                           IN (IF IsDef(converted) THEN <<Val(converted)>> ELSE <<>>) \o convert(i + 1)
              IN IF IsDocumentSymbol(list[1]) THEN Returned(list) ELSE Returned(convert(1))

\* collectRanges: the ids handed to the VertexRetriever, entry before children
RECURSIVE collectRanges(_)
collectRanges(elements) ==
    IF elements = <<>> THEN <<>>
    ELSE <<Head(elements).id>>
         \o (IF IsDef(Head(elements).children) THEN collectRanges(Val(Head(elements).children))
             ELSE <<>>)
         \o collectRanges(Tail(elements))

\* the batch size documentSymbols gives its VertexRetriever
SymbolBatchSize == 16

\* Retriever.run: the rows of the ids, batch by batch; a batch whose statement
\* returns fewer rows than it has ids throws
RECURSIVE retrieverRun(_, _)
retrieverRun(values, batchSize) ==
    IF values = <<>> THEN Returned(<<>>)
    ELSE LET n == IF Len(values) < batchSize THEN Len(values) ELSE batchSize
             batch == SubSeq(values, 1, n)
             data == SelectSeq(db.vertices, LAMBDA v : \E i \in 1..n : batch[i] = v.id)
             rest == retrieverRun(SubSeq(values, n + 1, Len(values)), batchSize)
         IN IF Len(data) # n \/ rest.error THEN Thrown
            ELSE Returned([i \in 1..n |-> RowsById(db.vertices, batch[i])[1]] \o Val(rest.value))

\* convert of GraphStore.documentSymbols
RECURSIVE gsConvert(_, _)
gsConvert(elements, ranges) ==
    IF elements = <<>> THEN <<>>
    ELSE LET element == Head(elements)
             symbol == IF Has(ranges, element.id) THEN asDocumentSymbol(ranges[element.id])
                       ELSE Undef
         IN (IF IsDef(symbol)
             THEN <<[Val(symbol) EXCEPT !.children =
                        IF IsDef(element.children) /\ Len(Val(element.children)) > 0
                        THEN Def(gsConvert(Val(element.children), ranges)) ELSE Undef]>>
             ELSE <<>>) \o gsConvert(Tail(elements), ranges)

\* retrieveResultForDocument
retrieveResultForDocument(uri, label) ==
    LET documents == SelectSeq(db.documents, LAMBDA d : d.uri = uri)
        data == IF documents = <<>> THEN <<>> ELSE retrieveByEdge(documents[1].id, label)
    IN IF data = <<>> THEN Undef ELSE Def(decompress(data[1].value))

\* GraphStore.documentSymbols
gsDocumentSymbols(uri) ==
    LET symbolResult == retrieveResultForDocument(toDatabase(uri), "textDocument/documentSymbol")
    IN IF ~IsDef(symbolResult) THEN ReturnedUndefined
       ELSE IF Len(Val(symbolResult).result) = 0 THEN Returned(<<>>)
       ELSE IF IsDocumentSymbol(Val(symbolResult).result[1]) THEN Returned(Val(symbolResult).result)
       ELSE LET data == retrieverRun(collectRanges(Val(symbolResult).result), SymbolBatchSize)
            IN IF data.error THEN Thrown
               ELSE LET rows == Val(data.value)
                        ranges == [id \in {rows[i].id : i \in 1..Len(rows)} |->
                                      decompress(RowsById(rows, id)[1].value)]
                    IN Returned(gsConvert(Val(symbolResult).result, ranges))

\* ------------------------------------------------------------------------
\* Decompressor: compressed values and their decoding
\* ------------------------------------------------------------------------
\* JSON values, by typeof / Array.isArray
Null == [t |-> "null"]

Num(n) == [t |-> "number", n |-> n]

Str(s) == [t |-> "string", s |-> s]

Arr(elements) == [t |-> "array", elements |-> elements]

Obj(fields) == [t |-> "object", fields |-> fields]

IsScalar(value) == value.t \in {"string", "number", "boolean"}

\* a DecompressorPropertyDescription; a dotted name is a container and a name
Property(container, name, index, compressionKind, longForm) ==
    [container |-> container, name |-> name, index |-> index,
     compressionKind |-> compressionKind, longForm |-> longForm]

\* compressed[index]
ElementAt(compressed, index) ==
    IF index + 1 \in 1..Len(compressed) THEN compressed[index + 1] ELSE Null

\* an array value that starts with a number
StartsWithNumber(value) ==
    value.t = "array" /\ Len(value.elements) > 0 /\ value.elements[1].t = "number"

\* Decompressor.decompress: the parent's record first, then the properties of
\* this decompressor in order; a throw discards the record
RECURSIVE decompressorDecompress(_, _, _)
RECURSIVE decompressProperties(_, _, _, _, _)
RECURSIVE decompressElements(_, _, _, _)
decompressorDecompress(all, id, compressed) ==
    LET parent == IF IsDef(all[id].parentId) /\ Has(all, Val(all[id].parentId))
                  THEN decompressorDecompress(all, Val(all[id].parentId), compressed)
                  ELSE Returned(<<>>)
    IN IF parent.error THEN Thrown
       ELSE decompressProperties(all, all[id].properties, 1, compressed, Val(parent.value))

\* the elements of an array value from element i on (kinds array and any)
decompressElements(all, elements, i, converted) ==
    IF i > Len(elements) THEN Returned(converted)
    ELSE IF IsScalar(elements[i])
         THEN decompressElements(all, elements, i + 1, Append(converted, elements[i]))
         ELSE IF StartsWithNumber(elements[i])
              THEN IF ~Has(all, elements[i].elements[1].n) THEN Thrown
                   ELSE LET nested == decompressorDecompress(all, elements[i].elements[1].n,
                                                             elements[i].elements)
                        IN IF nested.error THEN Thrown
                           ELSE decompressElements(all, elements, i + 1,
                                                   Append(converted, Obj(Val(nested.value))))
              ELSE Thrown

\* the loop over this.properties from property i on
decompressProperties(all, properties, i, compressed, result) ==
    IF i > Len(properties) THEN Returned(result)
    ELSE LET property == properties[i]
             value == ElementAt(compressed, property.index)
             kind == property.compressionKind
             stored(v) ==
                 decompressProperties(all, properties, i + 1, compressed,
                     IF kind = "scalar" /\ property.container # ""
                     THEN MapSet(result, property.container,
                              Obj(MapSet(IF Has(result, property.container)
                                         THEN result[property.container].fields ELSE <<>>,
                                         property.name, v)))
                     ELSE MapSet(result, property.name, v))
         IN IF value.t = "null" THEN decompressProperties(all, properties, i + 1, compressed, result)
            ELSE IF kind \in {"id", "ids", "raw"} THEN stored(value)
            ELSE IF kind = "scalar"
                 THEN stored(IF IsDef(property.longForm) /\ value.t = "number"
                                /\ Has(Val(property.longForm), value.n)
                             THEN Str(Val(property.longForm)[value.n]) ELSE value)
            ELSE IF kind = "literal"
                 THEN IF ~StartsWithNumber(value) THEN Thrown
                      ELSE IF ~Has(all, value.elements[1].n) THEN Thrown
                      ELSE LET nested == decompressorDecompress(all, value.elements[1].n, value.elements)
                           IN IF nested.error THEN Thrown ELSE stored(Obj(Val(nested.value)))
            ELSE IF kind = "array"
                 THEN IF value.t # "array" THEN Thrown
                      ELSE LET converted == decompressElements(all, value.elements, 1, <<>>)
                           IN IF converted.error THEN Thrown ELSE stored(Arr(Val(converted.value)))
            ELSE IF kind = "any"
                 THEN IF IsScalar(value) THEN stored(value)
                      ELSE IF value.t = "array"
                           THEN LET converted == decompressElements(all, value.elements, 1, <<>>)
                                IN IF converted.error THEN Thrown
                                   ELSE stored(Arr(Val(converted.value)))
                           ELSE Thrown
            ELSE Thrown

\* GraphStore.decompress: throws without a decompressor for element 0
gsDecompress(all, compressed) ==
    IF StartsWithNumber(Arr(compressed)) /\ Has(all, compressed[1].n)
    THEN LET record == decompressorDecompress(all, compressed[1].n, compressed)
         IN IF record.error THEN Thrown ELSE Returned(Obj(Val(record.value)))
    ELSE Thrown

\* GraphStore.decompress of the second GraphStore: a value without a
\* decompressor for element 0 is returned as it is
gsDecompressValue(all, compressed) ==
    IF StartsWithNumber(Arr(compressed)) /\ Has(all, compressed[1].n)
    THEN LET record == decompressorDecompress(all, compressed[1].n, compressed)
         IN IF record.error THEN Thrown ELSE Returned(Obj(Val(record.value)))
    ELSE Returned(Arr(compressed))

\* ------------------------------------------------------------------------
\* BlobStore: rows, document blobs and queries
\* ------------------------------------------------------------------------
\* the column of a row a statement returned: undefined when the statement
\* does not select it
Column(row, name) == IF name \in DOMAIN row THEN Def(row[name]) ELSE Undef

\* JSON.stringify / JSON.parse of the content column of the blobs table
JSONstringify(value) == <<"json", value>>

JSONparse(content) == content[2]

\* RangeData / ResultSetData: every link is an optional id
BlobData(id, span, next, moniker, links) ==
    [id |-> id, span |-> span, next |-> next, moniker |-> moniker,
     hoverResult |-> links[1], declarationResult |-> links[2],
     definitionResult |-> links[3], referenceResult |-> links[4]]

\* the map, the link and the table each query reads
BlobKinds ==
    [hover |-> [map |-> "hovers", property |-> "hoverResult", table |-> "hovers"],
     declarations |-> [map |-> "declarationResults", property |-> "declarationResult", table |-> "decls"],
     definitions |-> [map |-> "definitionResults", property |-> "definitionResult", table |-> "defs"],
     references |-> [map |-> "referenceResults", property |-> "referenceResult", table |-> "refs"]]

\* findFile: findDocumentStmt selects the column documentHash only
findFile(uri) ==
    IF ~blobDb.open THEN Thrown
    ELSE LET rows == SelectSeq(blobDb.documents,
                         LAMBDA d : d.documentHash \in blobDb.versions /\ d.uri = uri)
         IN IF rows = <<>> THEN ReturnedUndefined
            ELSE LET result == [documentHash |-> rows[1].documentHash]
                 IN Returned([id |-> Column(result, "id"),
                              hash |-> Column(result, "documentHash")])

\* getBlob: the cached blob, or the row of findBlobStmt parsed and cached;
\* without a row the read of blobResult.content throws
getBlob(cache, documentId) ==
    IF Has(cache, documentId) THEN [blob |-> Def(cache[documentId]), blobs |-> cache]
    ELSE LET rows == SelectSeq(blobDb.blobs,
                         LAMBDA b : IsDef(documentId) /\ b.hash = Val(documentId))
         IN IF ~blobDb.open \/ rows = <<>> THEN [blob |-> Undef, blobs |-> cache]
            ELSE LET result == JSONparse(rows[1].content)
                 IN [blob |-> Def(result), blobs |-> MapSet(cache, documentId, result)]

\* the loop of BlobStore.findRangeFromPosition over Object.keys(blob.ranges)
RECURSIVE blobRangeLoop(_, _, _, _)
blobRangeLoop(ranges, i, position, candidate) ==
    IF i > Len(ranges) THEN candidate
    ELSE LET range == ranges[i]
         IN IF containsPosition(range.span, position)
            THEN IF ~IsDef(candidate) THEN blobRangeLoop(ranges, i + 1, position, Def(range))
                 ELSE IF containsRange(Val(candidate).span, range.span)
                      THEN blobRangeLoop(ranges, i + 1, position, Def(range))
                      ELSE blobRangeLoop(ranges, i + 1, position, candidate)
            ELSE blobRangeLoop(ranges, i + 1, position, candidate)

\* BlobStore.findRangeFromPosition
blobFindRangeFromPosition(cache, uri, position) ==
    LET documentId == findFile(uri)
    IN IF documentId.error THEN [error |-> TRUE, range |-> Undef, blob |-> Undef, blobs |-> cache]
       ELSE IF ~IsDef(documentId.value)
            THEN [error |-> FALSE, range |-> Undef, blob |-> Undef, blobs |-> cache]
            ELSE LET got == getBlob(cache, Val(documentId.value).id)
                 IN IF ~IsDef(got.blob)
                    THEN [error |-> TRUE, range |-> Undef, blob |-> Undef, blobs |-> cache]
                    ELSE [error |-> FALSE,
                          range |-> blobRangeLoop(Val(got.blob).ranges, 1, position, Undef),
                          blob |-> got.blob, blobs |-> got.blobs]

\* findResult: the entry of the map for the first link along the next chain
RECURSIVE findResult(_, _, _, _)
findResult(resultSets, map, data, property) ==
    IF IsDef(data[property])
    THEN IF Has(map, Val(data[property])) THEN Def(map[Val(data[property])]) ELSE Undef
    ELSE IF IsDef(data.next) /\ IsDef(resultSets) /\ Has(Val(resultSets), Val(data.next))
         THEN findResult(resultSets, map, Val(resultSets)[Val(data.next)], property)
         ELSE Undef

\* the loop of findMoniker: the moniker link seen last along the next chain
RECURSIVE findMonikerLoop(_, _, _)
findMonikerLoop(resultSets, data, result) ==
    LET seen == IF IsDef(data.moniker) THEN data.moniker ELSE result
    IN IF IsDef(data.next) /\ IsDef(resultSets) /\ Has(Val(resultSets), Val(data.next))
       THEN findMonikerLoop(resultSets, Val(resultSets)[Val(data.next)], seen)
       ELSE seen

findMoniker(resultSets, monikers, data) ==
    IF ~IsDef(monikers) THEN Undef
    ELSE LET result == findMonikerLoop(resultSets, data, Undef)
         IN IF IsDef(result) /\ Has(Val(monikers), Val(result))
            THEN Def(Val(monikers)[Val(result)]) ELSE Undef

\* ------------------------------------------------------------------------
\* The walks of BlobStore along the next chain, one loop iteration at a time
\* ------------------------------------------------------------------------
\* the state of a walk: the data it stands on, the moniker link seen last and,
\* as history, the ids of the data it stood on
BlobWalk(op, data, property) ==
    [op |-> op, start |-> data.id, property |-> property, current |-> Def(data),
     moniker |-> Undef, visited |-> <<>>, result |-> Undef, done |-> FALSE]

\* current.next !== undefined ? (resultSets !== undefined ? resultSets[current.next]
\* : undefined) : undefined
nextData(resultSets, data) ==
    IF IsDef(data.next) /\ IsDef(resultSets) /\ Has(Val(resultSets), Val(data.next))
    THEN Def(Val(resultSets)[Val(data.next)])
    ELSE Undef

\* an iteration of the while loop of findResult, or the return behind the loop
findResultStep(resultSets, map, w) ==
    IF ~IsDef(w.current) THEN [w EXCEPT !.done = TRUE]
    ELSE LET data == Val(w.current)
             value == data[w.property]
             seen == Append(w.visited, data.id)
         IN IF IsDef(value)
            THEN [w EXCEPT !.visited = seen, !.done = TRUE,
                           !.result = IF Has(map, Val(value)) THEN Def(map[Val(value)])
                                      ELSE Undef]
            ELSE [w EXCEPT !.visited = seen, !.current = nextData(resultSets, data)]

\* an iteration of findMoniker that leaves the loop on data it stood on before
findMonikerStepGuarded(resultSets, monikers, w) ==
    IF ~IsDef(w.current) \/ (\E i \in 1..Len(w.visited) : w.visited[i] = Val(w.current).id)
    THEN [w EXCEPT !.done = TRUE,
                   !.result = IF IsDef(w.moniker) /\ Has(Val(monikers), Val(w.moniker))
                              THEN Def(Val(monikers)[Val(w.moniker)]) ELSE Undef]
    ELSE LET data == Val(w.current)
         IN [w EXCEPT !.visited = Append(w.visited, data.id),
                      !.moniker = IF IsDef(data.moniker) THEN data.moniker ELSE w.moniker,
                      !.current = nextData(resultSets, data)]

\* an iteration of the while loop of findMoniker, or the return behind the loop
findMonikerStep(resultSets, monikers, w) ==
    IF ~IsDef(w.current)
    THEN [w EXCEPT !.done = TRUE,
                   !.result = IF IsDef(w.moniker) /\ Has(Val(monikers), Val(w.moniker))
                              THEN Def(Val(monikers)[Val(w.moniker)]) ELSE Undef]
    ELSE LET data == Val(w.current)
         IN [w EXCEPT !.visited = Append(w.visited, data.id),
                      !.moniker = IF IsDef(data.moniker) THEN data.moniker ELSE w.moniker,
                      !.current = nextData(resultSets, data)]

\* BlobStore.asLocations
asLocations(ranges, uri, ids) ==
    [i \in 1..Len(ids) |->
        Location(uri, (CHOOSE r \in {ranges[j] : j \in 1..Len(ranges)} : r.id = ids[i]).span)]

\* the rows of findDeclsStmt / findDefsStmt / findRefsStmt for a moniker: the
\* table joined with versions and documents
RECURSIVE blobRows(_, _)
blobRows(table, moniker) ==
    IF table = <<>> THEN <<>>
    ELSE LET d == Head(table)
             docs == SelectSeq(blobDb.documents, LAMBDA doc : doc.documentHash = d.documentHash)
         IN (IF d.documentHash \in blobDb.versions /\ d.scheme = moniker.scheme
                /\ d.identifier = moniker.identifier
             THEN [i \in 1..Len(docs) |-> [uri |-> docs[i].uri, kind |-> d.kind, span |-> d.span]]
             ELSE <<>>) \o blobRows(Tail(table), moniker)

\* findDeclarationsInDB / findDefinitionsInDB / findReferencesInDB
findInDB(op, moniker, includeDeclaration) ==
    LET qResult == blobRows(blobDb[BlobKinds[op].table], moniker)
        kept == IF op = "references"
                THEN SelectSeq(qResult, LAMBDA item : includeDeclaration \/ item.kind = 2)
                ELSE qResult
    IN IF qResult = <<>> THEN ReturnedUndefined
       ELSE Returned([i \in 1..Len(kept) |-> Location(fromDatabase(kept[i].uri), kept[i].span)])

\* the row of findHoverStmt for a moniker: the hover blob, its range filled
\* in from the queried range
findHoverInDB(moniker, range) ==
    LET rows == SelectSeq(blobDb.hovers, LAMBDA h :
                    h.hoverHash \in blobDb.versions /\ h.scheme = moniker.scheme
                    /\ h.identifier = moniker.identifier
                    /\ \E i \in 1..Len(blobDb.blobs) : blobDb.blobs[i].hash = h.hoverHash)
    IN IF rows = <<>> THEN ReturnedUndefined
       ELSE LET content == (CHOOSE b \in {blobDb.blobs[i] : i \in 1..Len(blobDb.blobs)} :
                                b.hash = rows[1].hoverHash).content
                result == JSONparse(content)
            IN Returned(IF IsDef(result.range) THEN result
                        ELSE [result EXCEPT !.range = Def(range.span)])

\* the locations of a local reference result
localReferences(blob, uri, resultData, includeDeclaration) ==
    (IF includeDeclaration /\ IsDef(resultData.declarations)
     THEN asLocations(blob.ranges, uri, Val(resultData.declarations)) ELSE <<>>)
    \o (IF includeDeclaration /\ IsDef(resultData.definitions)
        THEN asLocations(blob.ranges, uri, Val(resultData.definitions)) ELSE <<>>)
    \o (IF IsDef(resultData.references)
        THEN asLocations(blob.ranges, uri, Val(resultData.references)) ELSE <<>>)

\* hover / declarations / definitions / references once the range and the
\* blob are resolved: undefined without range, blob or local map; the local
\* result if the chain has one; otherwise the rows of the chain's moniker
answerOfBlob(op, uri, range, blob, includeDeclaration) ==
    IF ~IsDef(range) \/ ~IsDef(blob) THEN ReturnedUndefined
    ELSE IF ~IsDef(Val(blob)[BlobKinds[op].map]) THEN ReturnedUndefined
    ELSE LET b == Val(blob)
             resultData == findResult(b.resultSets, Val(b[BlobKinds[op].map]), Val(range),
                                      BlobKinds[op].property)
             moniker == findMoniker(b.resultSets, b.monikers, Val(range))
         IN IF IsDef(resultData)
            THEN IF op = "hover" THEN Returned(Val(resultData))
                 ELSE IF op = "references"
                      THEN Returned(localReferences(b, uri, Val(resultData), includeDeclaration))
                      ELSE Returned(asLocations(b.ranges, uri, Val(resultData).values))
            ELSE IF ~IsDef(moniker) THEN ReturnedUndefined
                 ELSE IF op = "hover" THEN findHoverInDB(Val(moniker), Val(range))
                      ELSE findInDB(op, Val(moniker), includeDeclaration)

\* BlobStore.hover / declarations / definitions / references
blobQuery(op, uri, position, includeDeclaration) ==
    LET found == blobFindRangeFromPosition(blobs, toDatabase(uri), position)
    IN [result |-> IF found.error THEN Thrown
                   ELSE answerOfBlob(op, uri, found.range, found.blob, includeDeclaration),
        range |-> found.range,
        blobs |-> found.blobs]

\* ------------------------------------------------------------------------
\* JsonDatabase: the load of a stream with or without a metaData vertex
\* ------------------------------------------------------------------------
VersionChoices ==
    {Undef} \cup {Def(Version(parts, prerelease)) :
                     parts \in {<<0, 3, 0>>, <<0, 3, 7>>, <<0, 4, 0>>, <<1, 3, 0>>, <<0, 3>>},
                     prerelease \in {"", "beta"}}

\* the first vertex of the stream: a metaData vertex, or a project vertex
MetaVariants ==
    {MetaDataVertex("m", version, projectRoot) :
        version \in VersionChoices, projectRoot \in {Undef, Def("file:///root")}}
    \cup {[id |-> "m", label |-> "project"]}

LoadOrder ==
    << MetaVariants,
       {DocumentVertex("d1", Uri("project", "a.ts"))},
       {RangeVertex("r1", Span(0, 0, 0, 1))},
       {ReferenceResultVertex("x1", Undef, Undef, Undef, Undef)} >>

LoadEdges ==
    { Edge("contains", "d1", "r1"),
      Edge("textDocument/references", "r1", "x1"),
      ItemEdge("x1", "r1", "references") }

InitJsonLoad ==
    /\ NonJsonIdle
    /\ vertices = [all |-> <<>>, documents |-> <<>>, ranges |-> <<>>]
    /\ indices = [documents |-> <<>>]
    /\ out = [contains |-> <<>>, item |-> <<>>, refersTo |-> <<>>,
              references |-> <<>>, definition |-> <<>>, documentSymbol |-> <<>>]
    /\ inn = [contains |-> <<>>]
    /\ jstate = "loading"
    /\ jresult = NoResult
    /\ jload = [NotLoaded EXCEPT !.trace = TRUE]

NextJsonLoad ==
    \/ ProcessVertex(LoadOrder)
    \/ ProcessEdge(LoadEdges)
    \/ Close
    \/ References
    \/ JsonClose

SpecJsonLoad == InitJsonLoad /\ [][NextJsonLoad]_vars

\* ------------------------------------------------------------------------
\* Decompressor: a family of schemas and compressed records
\* ------------------------------------------------------------------------
\* decompressor 1 with properties id and a; decompressor 2, child of 1, with
\* property b; decompressor 3 with the scalar tag.type and its long form
Registry(kindA, kindB) ==
    (1 :> [id |-> 1, parentId |-> Undef,
           properties |-> <<Property("", "id", 1, "id", Undef),
                            Property("", "a", 2, kindA, Undef)>>])
    @@ (2 :> [id |-> 2, parentId |-> Def(1),
              properties |-> <<Property("", "b", 3, kindB, Undef)>>])
    @@ (3 :> [id |-> 3, parentId |-> Undef,
              properties |-> <<Property("tag", "type", 1, "scalar", Def(7 :> "definition"))>>])

KindsA == {"scalar", "literal", "array", "any", "unknown"}

KindsB == {"raw", "literal", "unknown"}

\* element 0 of the record, and the values of the elements a and b
Heads == {Num(1), Num(2), Num(9), Str("s")}

Elements ==
    {Null, Num(7), Str("s"), Obj(<<>>), Arr(<<>>), Arr(<<Num(3), Num(7)>>), Arr(<<Num(9)>>),
     Arr(<<Str("s")>>), Arr(<<Arr(<<Num(3), Str("x")>>), Num(5)>>), Arr(<<Arr(<<Num(9)>>)>>)}

InitDecompress ==
    /\ NonDecIdle
    /\ dcAll \in {Registry(a, b) : a \in KindsA, b \in KindsB}
    /\ dcCompressed = <<Num(1), Num(5), Null, Null>>
    /\ dcResult = NoResult

\* the record a row holds
PutElement ==
    /\ \E i \in {1, 3, 4} : \E v \in (IF i = 1 THEN Heads ELSE Elements) :
         dcCompressed' = [dcCompressed EXCEPT ![i] = v]
    /\ dcResult' = NoResult
    /\ UNCHANGED <<dcAll, nonDecVars>>

\* GraphStore.decompress
Decompress ==
    /\ dcResult' = [op |-> "decompress", result |-> gsDecompress(dcAll, dcCompressed)]
    /\ UNCHANGED <<dcAll, dcCompressed, nonDecVars>>

\* GraphStore.decompress of the second GraphStore
DecompressValue ==
    /\ dcResult' = [op |-> "decompressValue", result |-> gsDecompressValue(dcAll, dcCompressed)]
    /\ UNCHANGED <<dcAll, dcCompressed, nonDecVars>>

NextDecompress == PutElement \/ Decompress \/ DecompressValue

SpecDecompress == InitDecompress /\ [][NextDecompress]_vars

\* ------------------------------------------------------------------------
\* BlobStore: a family of databases and the queries on them
\* ------------------------------------------------------------------------
BlobMonikerChoices == {"none", "range", "set", "both"}

BlobOptions == [localMap : BOOLEAN, localResult : BOOLEAN, moniker : BlobMonikerChoices,
                monikers : BOOLEAN, rows : BOOLEAN]

\* the blob of a.ts: range r1 with next s1; the result links sit on s1
BlobA(o) ==
    LET link == IF o.localResult THEN Def("q1") ELSE Undef
        maps(m) == IF o.localMap THEN Def(m) ELSE Undef
    IN [ranges |->
            <<BlobData("r1", Span(0, 0, 0, 1), Def("s1"),
                       IF o.moniker \in {"range", "both"} THEN Def("m1") ELSE Undef,
                       <<Undef, Undef, Undef, Undef>>),
              BlobData("r2", Span(1, 0, 1, 1), Undef, Undef, <<Undef, Undef, Undef, Undef>>)>>,
        resultSets |-> Def("s1" :> BlobData("s1", undefined, Undef,
                                   IF o.moniker \in {"set", "both"} THEN Def("m2") ELSE Undef,
                                   <<link, link, link, link>>)),
        monikers |-> IF o.monikers
                     THEN Def(("m1" :> [scheme |-> "tsc", identifier |-> "x", kind |-> "import"])
                              @@ ("m2" :> [scheme |-> "tsc", identifier |-> "y", kind |-> "export"]))
                     ELSE Undef,
        hovers |-> maps("q1" :> [contents |-> "local", range |-> Undef]),
        declarationResults |-> maps("q1" :> [values |-> <<"r1">>]),
        definitionResults |-> maps("q1" :> [values |-> <<"r2">>]),
        referenceResults |-> maps("q1" :> [declarations |-> Def(<<"r1">>), definitions |-> Undef,
                                           references |-> Def(<<"r2">>)])]

\* the blob of b.ts: two ranges without links
BlobB ==
    [ranges |-> <<BlobData("r1", Span(0, 0, 0, 0), Undef, Undef, <<Undef, Undef, Undef, Undef>>),
                  BlobData("r2", Span(1, 1, 1, 1), Undef, Undef, <<Undef, Undef, Undef, Undef>>)>>,
     resultSets |-> Undef, monikers |-> Undef, hovers |-> Undef, declarationResults |-> Undef,
     definitionResults |-> Undef, referenceResults |-> Undef]

\* a row of decls / defs / refs
BlobRow(identifier, kind, span) ==
    [documentHash |-> "hB", scheme |-> "tsc", identifier |-> identifier, kind |-> kind,
     span |-> span]

BlobDatabase(o) ==
    [open |-> TRUE,
     documents |-> <<[documentHash |-> "hA", uri |-> UriA], [documentHash |-> "hB", uri |-> UriB]>>,
     versions |-> {"hA", "hB", "hH"},
     blobs |-> <<[hash |-> "hA", content |-> JSONstringify(BlobA(o))],
                 [hash |-> "hB", content |-> JSONstringify(BlobB)],
                 [hash |-> "hH", content |-> JSONstringify([contents |-> "shared", range |-> Undef])]>>,
     decls |-> When(o.rows, <<BlobRow("x", 0, Span(0, 0, 0, 0)), BlobRow("y", 0, Span(1, 1, 1, 1))>>),
     defs |-> When(o.rows, <<BlobRow("x", 1, Span(0, 0, 0, 0)), BlobRow("y", 1, Span(1, 1, 1, 1))>>),
     refs |-> When(o.rows, <<BlobRow("x", 2, Span(0, 0, 0, 0)), BlobRow("y", 1, Span(1, 1, 1, 1)),
                             BlobRow("y", 2, Span(0, 0, 0, 0))>>),
     hovers |-> When(o.rows, <<[hoverHash |-> "hH", scheme |-> "tsc", identifier |-> "y"]>>)]

InitBlob ==
    /\ NonBlobIdle
    /\ blobDb \in {BlobDatabase(o) : o \in BlobOptions}
    /\ blobs = <<>>
    /\ bsResult = NoResult

BlobUris == {Uri("lsif", "a.ts"), Uri("lsif", "b.ts"), Uri("lsif", "c.ts")}

BlobPositions == {Pos(0, 0), Pos(0, 1), Pos(1, 1)}

\* a query: the cache it leaves and the record of what it returned
BlobAnswer(op, uri, position, includeDeclaration) ==
    LET q == blobQuery(op, uri, position, includeDeclaration)
    IN /\ blobs' = q.blobs
       /\ bsResult' = [op |-> op, uri |-> uri, position |-> position,
                       includeDeclaration |-> includeDeclaration, closed |-> ~blobDb.open,
                       range |-> q.range, value |-> q.result.value, error |-> q.result.error]
       /\ UNCHANGED <<blobDb, nonBlobVars>>

BlobHover == \E uri \in BlobUris, position \in BlobPositions :
    BlobAnswer("hover", uri, position, FALSE)

BlobDeclarations == \E uri \in BlobUris, position \in BlobPositions :
    BlobAnswer("declarations", uri, position, FALSE)

BlobDefinitions == \E uri \in BlobUris, position \in BlobPositions :
    BlobAnswer("definitions", uri, position, FALSE)

BlobReferences == \E uri \in BlobUris, position \in BlobPositions, includeDeclaration \in BOOLEAN :
    BlobAnswer("references", uri, position, includeDeclaration)

\* BlobStore.close
BlobClose ==
    /\ blobDb.open
    /\ blobDb' = [blobDb EXCEPT !.open = FALSE]
    /\ UNCHANGED <<blobs, bsResult, nonBlobVars>>

NextBlob == BlobHover \/ BlobDeclarations \/ BlobDefinitions \/ BlobReferences \/ BlobClose

SpecBlob == InitBlob /\ [][NextBlob]_vars

\* ------------------------------------------------------------------------
\* Server: the registry of databases, dispatch and capability registration
\* ------------------------------------------------------------------------
\* a uri is the sequence of its characters; "l" and "f" stand for the schemes
\* lsif: and file:
startsWith(s, prefix) == Len(prefix) <= Len(s) /\ SubSeq(s, 1, Len(prefix)) = prefix

\* uri.scheme === LSIF_SCHEME
IsLsif(uri) == uri[1] = "l"

getDatabaseKey(uri) == IF uri[Len(uri)] # "/" THEN Append(uri, "/") ELSE uri

\* Map.get / set / delete / keys on the insertion-ordered list of entries
DbHas(dbs, key) == \E i \in 1..Len(dbs) : dbs[i].key = key

DbGet(dbs, key) == (CHOOSE i \in 1..Len(dbs) : dbs[i].key = key)

DbSet(dbs, key, promise) ==
    IF DbHas(dbs, key)
    THEN [i \in 1..Len(dbs) |-> IF dbs[i].key = key THEN [key |-> key, promise |-> promise] ELSE dbs[i]]
    ELSE Append(dbs, [key |-> key, promise |-> promise])

DbDelete(dbs, key) == SelectSeq(dbs, LAMBDA e : e.key # key)

DbKeys(dbs) == [i \in 1..Len(dbs) |-> dbs[i].key]

\* Array.sort with the comparator a.length - b.length: a stable sort, here
\* the insertion of each key behind the keys that are not longer
RECURSIVE sortByLength(_, _)
sortByLength(keys, sorted) ==
    IF keys = <<>> THEN sorted
    ELSE LET key == Head(keys)
             n == Cardinality({i \in 1..Len(sorted) : Len(sorted[i]) <= Len(key)})
         IN sortByLength(Tail(keys),
                         SubSeq(sorted, 1, n) \o <<key>> \o SubSeq(sorted, n + 1, Len(sorted)))

\* sortedDatabaseKeys: the cached list, or the keys of databases sorted by length
sortedDatabaseKeys ==
    IF IsDef(sortedKeys) THEN Val(sortedKeys) ELSE sortByLength(DbKeys(databases), <<>>)

\* findDatabase: the promise stored under the first sorted key that is a
\* prefix of the slash-terminated uri
findDatabase(uri) ==
    LET sorted == sortedDatabaseKeys
        slashed == IF uri[Len(uri)] # "/" THEN Append(uri, "/") ELSE uri
        hits == SelectSeq(sorted, LAMBDA element : startsWith(slashed, element))
    IN [sorted |-> sorted,
        key |-> IF hits = <<>> THEN Undef ELSE Def(hits[1]),
        promise |-> IF hits # <<>> /\ DbHas(databases, hits[1])
                    THEN Def(databases[DbGet(databases, hits[1])].promise) ELSE Undef]

\* checkRegistrations: the value of `registrations` it leaves
checkRegistrations(dbs, registered) ==
    IF Len(dbs) = 0 /\ registered THEN FALSE
    ELSE IF Len(dbs) >= 1 /\ ~registered THEN TRUE
    ELSE registered

\* ------------------------------------------------------------------------
\* Specification of documentSymbols: one document, three tagged ranges and a
\* document symbol result over them, in the JSON dump and in the SQLite file
\* ------------------------------------------------------------------------
SymbolUri == Uri("project", "a.ts")

SymbolSpans == [r1 |-> Span(0, 0, 1, 1), r2 |-> Span(0, 0, 0, 1), r3 |-> Span(1, 0, 1, 1)]

\* the tag of a range: none, or a tag of one of the tag types
TagTypes == {"none", "declaration", "definition", "reference", "unknown"}

RangeTag(id, type) ==
    IF type = "none" THEN Undef
    ELSE Def([type |-> type, text |-> id, kind |-> 12, fullRange |-> SymbolSpans[id]])

Leaf(id) == RangeBasedDocumentSymbol(id, Undef)

Node(id, children) == RangeBasedDocumentSymbol(id, Def(children))

\* the result arrays: range based trees over r1, r2, r3, an empty array, and
\* an array of full document symbols
SymbolShapes ==
    [flat   |-> <<Leaf("r1"), Leaf("r2"), Leaf("r3")>>,
     chain  |-> <<Node("r1", <<Node("r2", <<Leaf("r3")>>)>>)>>,
     fan    |-> <<Node("r1", <<Leaf("r2"), Leaf("r3")>>)>>,
     left   |-> <<Node("r1", <<Leaf("r2")>>), Leaf("r3")>>,
     right  |-> <<Leaf("r1"), Node("r2", <<Leaf("r3")>>)>>,
     hollow |-> <<Node("r1", <<>>), Leaf("r2"), Leaf("r3")>>,
     empty  |-> <<>>,
     full   |-> <<DocumentSymbol(Val(RangeTag("r1", "reference")), SymbolSpans["r1"], Undef)>>]

SymbolOptions ==
    [r1 : TagTypes, r2 : TagTypes, r3 : TagTypes, shape : DOMAIN SymbolShapes]

SymbolRanges(o) ==
    <<TaggedRange("r1", SymbolSpans["r1"], RangeTag("r1", o.r1)),
      TaggedRange("r2", SymbolSpans["r2"], RangeTag("r2", o.r2)),
      TaggedRange("r3", SymbolSpans["r3"], RangeTag("r3", o.r3))>>

\* the SQLite file of the dump
SymbolDatabase(o) ==
    [EmptyDb EXCEPT
        !.documents = <<DocumentRow("d1", SymbolUri)>>,
        !.ranges = [i \in 1..3 |-> RangeRow(SymbolRanges(o)[i].id, "d1", asRange(SymbolRanges(o)[i]))],
        !.vertices = [i \in 1..3 |->
                         VertexRow(<<"range", SymbolRanges(o)[i].id, asRange(SymbolRanges(o)[i]),
                                     SymbolRanges(o)[i].tag>>)]
                     \o <<VertexRow(<<"documentSymbolResult", "y1", SymbolShapes[o.shape]>>)>>,
        !.edges = <<EdgeRow("d1", "textDocument/documentSymbol", "y1")>>]

\* the vertices of the dump the SQLite file was made from, in stream order
SymbolOrder ==
    << {MetaDataVertex("m", Def(Version(<<0, 3, 0>>, "")), Def("file:///root"))},
       {DocumentVertex(db.documents[1].id, db.documents[1].uri)},
       {decompress(db.vertices[1].value)},
       {decompress(db.vertices[2].value)},
       {decompress(db.vertices[3].value)},
       {decompress(db.vertices[4].value)} >>

SymbolEdges ==
    {Edge("contains", "d1", "r1"), Edge("textDocument/documentSymbol", "d1", "y1")}

InitSymbols ==
    /\ GeomIdle
    /\ InitJson
    /\ BlobIdle
    /\ DecIdle
    /\ ServerIdle
    /\ db \in {SymbolDatabase(o) : o \in SymbolOptions}
    /\ gsResult = NoResult

SymbolUris == {Uri("lsif", "a.ts")}

\* JsonDatabase.documentSymbols
DocumentSymbols ==
    /\ jstate = "loaded"
    /\ \E uri \in SymbolUris :
         LET r == documentSymbols(uri) IN
         jresult' = [op |-> "documentSymbols", uri |-> uri, value |-> r.value, error |-> r.error]
    /\ UNCHANGED <<vertices, indices, out, inn, jstate, jload, nonJsonVars>>

\* GraphStore.documentSymbols
GraphDocumentSymbols ==
    /\ \E uri \in SymbolUris :
         LET r == gsDocumentSymbols(uri) IN
         gsResult' = [op |-> "documentSymbols", uri |-> uri, value |-> r.value, error |-> r.error]
    /\ UNCHANGED <<db, nonGraphVars>>

NextSymbols ==
    \/ ProcessVertex(SymbolOrder)
    \/ ProcessEdge(SymbolEdges)
    \/ Close
    \/ DocumentSymbols
    \/ GraphDocumentSymbols

SpecSymbols == InitSymbols /\ [][NextSymbols]_vars

\* ------------------------------------------------------------------------
\* Specification of the position filter: the same span stored as a range row
\* of each of two documents, every well-formed span over the grid
\* ------------------------------------------------------------------------
WherePositions == {Pos(l, c) : l \in 0..WhereMaxLine, c \in 0..WhereMaxChar}

WhereSpans ==
    {span \in [start : WherePositions, end : WherePositions] : PosLE(span.start, span.end)}

WhereDatabase(span) ==
    [EmptyDb EXCEPT
        !.documents = <<DocumentRow("dA", UriA), DocumentRow("dB", UriB)>>,
        !.ranges = <<RangeRow("ra", "dA", span), RangeRow("rb", "dB", span)>>]

InitWhere ==
    /\ NonGraphIdle
    /\ db \in {WhereDatabase(span) : span \in WhereSpans}
    /\ gsResult = NoResult

\* findRangesStmt.all({ uri, line, character })
FindRanges ==
    /\ \E uri \in GraphUris, position \in WherePositions :
         gsResult' = [op |-> "findRanges", uri |-> toDatabase(uri), position |-> position,
                      rows |-> findRangesStmt(toDatabase(uri), position)]
    /\ UNCHANGED <<db, nonGraphVars>>

NextWhere == FindRanges

SpecWhere == InitWhere /\ [][NextWhere]_vars

\* ------------------------------------------------------------------------
\* Specification of the server: three folders, two of them LSIF dumps of
\* which one lies inside the other, loaded, changed and queried
\* ------------------------------------------------------------------------
FolderA == <<"l", "/", "a">>

FolderAB == <<"l", "/", "a", "/", "b">>

FolderC == <<"f", "/", "c">>

Folders == {FolderA, FolderAB, FolderC}

\* lists of distinct folders, at most two
FolderLists ==
    {<<>>} \cup {<<f>> : f \in Folders}
    \cup {pair \in Folders \X Folders : pair[1] # pair[2]}

RequestUris ==
    {FolderAB \o <<"/", "x">>, FolderA \o <<"/", "x">>, <<"l", "/", "z">>}

InitServer ==
    /\ NonSrvIdle
    /\ workspaceFolders \in FolderLists
    /\ databases = <<>>
    /\ sortedKeys = Undef
    /\ registrations = FALSE
    /\ microtasks = <<>>
    /\ handler = NoHandler
    /\ srvResult = NoResult

\* the end of a handler: `_sortedDatabaseKeys = undefined; checkRegistrations()`
Finish(kind, dbs) ==
    /\ sortedKeys' = Undef
    /\ registrations' = checkRegistrations(dbs, registrations)
    /\ handler' = [NoHandler EXCEPT !.finished = kind]

\* the handler goes on behind an await of createDatabase that returned
Continue(dbs) ==
    IF Len(handler.todo) = 1 THEN Finish(handler.kind, dbs)
    ELSE /\ handler' = [handler EXCEPT !.todo = Tail(@), !.awaiting = Undef]
         /\ UNCHANGED <<sortedKeys, registrations>>

\* the awaited createDatabase rejected: onInitialized logs the error and goes
\* on, the workspace folders listener ends with the rejection
Rejected(dbs) ==
    IF handler.kind = "initialized" THEN Continue(dbs)
    ELSE /\ handler' = [NoHandler EXCEPT !.finished = "rejected"]
         /\ UNCHANGED <<sortedKeys, registrations>>

\* connection.onInitialized up to its first await
OnInitialized ==
    /\ handler = NoHandler
    /\ LET todo == SelectSeq(workspaceFolders, IsLsif) IN
         IF todo = <<>> THEN Finish("initialized", databases)
         ELSE /\ handler' = [kind |-> "initialized", todo |-> todo, awaiting |-> Undef,
                             finished |-> "none"]
              /\ UNCHANGED <<sortedKeys, registrations>>
    /\ UNCHANGED <<workspaceFolders, databases, microtasks, srvResult, nonSrvVars>>

\* the then-callbacks the loop over event.removed queues: one for each removed
\* LSIF folder whose promise is resolved
RECURSIVE removedCallbacks(_)
removedCallbacks(removed) ==
    IF removed = <<>> THEN <<>>
    ELSE LET dbKey == getDatabaseKey(Head(removed))
         IN (IF IsLsif(Head(removed)) /\ DbHas(databases, dbKey)
                /\ databases[DbGet(databases, dbKey)].promise = "resolved"
             THEN <<[dbKey |-> dbKey]>> ELSE <<>>)
            \o removedCallbacks(Tail(removed))

\* the onDidChangeWorkspaceFolders listener up to its first await
DidChangeWorkspaceFolders ==
    /\ handler.kind = "none"
    /\ handler.finished # "none"
    /\ microtasks = <<>>
    /\ \E removed \in FolderLists, added \in FolderLists :
         LET todo == SelectSeq(added, IsLsif) IN
         /\ microtasks' = removedCallbacks(removed)
         /\ IF todo = <<>> THEN Finish("change", databases)
            ELSE /\ handler' = [kind |-> "change", todo |-> todo, awaiting |-> Undef,
                                finished |-> "none"]
                 /\ UNCHANGED <<sortedKeys, registrations>>
    /\ UNCHANGED <<workspaceFolders, databases, srvResult, nonSrvVars>>

\* a queued then-callback of the listener: database.close(); databases.delete(dbKey)
RunCallback ==
    /\ microtasks # <<>>
    /\ databases' = DbDelete(databases, Head(microtasks).dbKey)
    /\ microtasks' = Tail(microtasks)
    /\ UNCHANGED <<workspaceFolders, sortedKeys, registrations, handler, srvResult, nonSrvVars>>

\* createDatabase(folder): the file does not exist or the load throws, and the
\* call rejects; or load returns its promise, which is stored in databases
CreateDatabase ==
    /\ handler.kind # "none"
    /\ handler.awaiting = Undef
    /\ microtasks = <<>>
    /\ LET key == getDatabaseKey(Head(handler.todo)) IN
         \/ /\ Rejected(databases)
            /\ UNCHANGED databases
         \/ /\ databases' = DbSet(databases, key, "pending")
            /\ handler' = [handler EXCEPT !.awaiting = Def(key)]
            /\ UNCHANGED <<sortedKeys, registrations>>
    /\ UNCHANGED <<workspaceFolders, microtasks, srvResult, nonSrvVars>>

\* the promise of the load resolves
LoadResolves ==
    /\ IsDef(handler.awaiting)
    /\ databases' = DbSet(databases, Val(handler.awaiting), "resolved")
    /\ Continue(databases')
    /\ UNCHANGED <<workspaceFolders, microtasks, srvResult, nonSrvVars>>

\* the promise of the load rejects
LoadRejects ==
    /\ IsDef(handler.awaiting)
    /\ databases' = DbSet(databases, Val(handler.awaiting), "rejected")
    /\ Rejected(databases')
    /\ UNCHANGED <<workspaceFolders, microtasks, srvResult, nonSrvVars>>

\* a request that calls findDatabase(uri)
FindDatabase ==
    /\ microtasks = <<>>
    /\ \E uri \in RequestUris :
         LET found == findDatabase(uri) IN
         /\ sortedKeys' = Def(found.sorted)
         /\ srvResult' = [op |-> "findDatabase", uri |-> uri,
                          keys |-> DbKeys(SelectSeq(databases, LAMBDA e : e.promise = "resolved")),
                          key |-> found.key, promise |-> found.promise]
    /\ UNCHANGED <<workspaceFolders, databases, registrations, microtasks, handler, nonSrvVars>>

NextServer ==
    \/ OnInitialized
    \/ DidChangeWorkspaceFolders
    \/ RunCallback
    \/ CreateDatabase
    \/ LoadResolves
    \/ LoadRejects
    \/ FindDatabase

SpecServer == InitServer /\ [][NextServer]_vars

\* ------------------------------------------------------------------------
\* Specification of the chain walks: a range r and two result sets with any
\* next edges between them, reference results and monikers on any of them
\* ------------------------------------------------------------------------
ChainVertices == {"r", "s1", "s2"}

ChainOptions ==
    [nextR : {"none", "s1"}, nextS1 : {"none", "s1", "s2"}, nextS2 : {"none", "s1", "s2"},
     results : SUBSET ChainVertices, monikers : SUBSET ChainVertices]

ChainMonikerIds == [r |-> "mr", s1 |-> "ms1", s2 |-> "ms2"]

ChainMoniker(v) == CompressedMoniker(ChainMonikerIds[v], "tsc", v, "export", "project")

ChainDatabase(o) ==
    [EmptyDb EXCEPT
        !.documents = <<DocumentRow("dA", UriA)>>,
        !.ranges = <<RangeRow("r", "dA", Span(0, 0, 0, 1))>>,
        !.vertices = <<VertexRow(CompressedVertex("resultSet", "s1")),
                       VertexRow(CompressedVertex("resultSet", "s2")),
                       VertexRow(CompressedVertex("referenceResult", "xr")),
                       VertexRow(CompressedVertex("referenceResult", "xs1")),
                       VertexRow(CompressedVertex("referenceResult", "xs2")),
                       VertexRow(ChainMoniker("r")), VertexRow(ChainMoniker("s1")),
                       VertexRow(ChainMoniker("s2"))>>,
        !.monikers = <<MonikerRow(ChainMoniker("r")), MonikerRow(ChainMoniker("s1")),
                       MonikerRow(ChainMoniker("s2"))>>,
        !.edges = When(o.nextR # "none", <<EdgeRow("r", "next", o.nextR)>>)
                  \o When(o.nextS1 # "none", <<EdgeRow("s1", "next", o.nextS1)>>)
                  \o When(o.nextS2 # "none", <<EdgeRow("s2", "next", o.nextS2)>>)
                  \o When("r" \in o.results, <<EdgeRow("r", EdgeLabels.refs, "xr")>>)
                  \o When("s1" \in o.results, <<EdgeRow("s1", EdgeLabels.refs, "xs1")>>)
                  \o When("s2" \in o.results, <<EdgeRow("s2", EdgeLabels.refs, "xs2")>>)
                  \o When("r" \in o.monikers, <<EdgeRow("r", "moniker", "mr")>>)
                  \o When("s1" \in o.monikers, <<EdgeRow("s1", "moniker", "ms1")>>)
                  \o When("s2" \in o.monikers, <<EdgeRow("s2", "moniker", "ms2")>>)]

InitChain ==
    /\ NonGraphIdle
    /\ db \in {ChainDatabase(o) : o \in ChainOptions}
    /\ gsResult = NoResult

\* a call of getResultPath or getResultForId
StartWalk ==
    /\ gsResult = NoResult
    /\ bsResult = NoResult
    /\ \E op \in {"getResultPath", "getResultForId"}, start \in {"r", "s1"},
          label \in {EdgeLabels.refs, EdgeLabels.definition} :
         gsResult' = Walk(op, start, label)
    /\ UNCHANGED <<db, nonGraphVars>>

GetResultPathStep ==
    /\ gsResult.op = "getResultPath"
    /\ ~gsResult.done
    /\ Len(gsResult.path) < MaxWalk
    /\ gsResult' = getResultPathStep(gsResult)
    /\ UNCHANGED <<db, nonGraphVars>>

GetResultForIdStep ==
    /\ gsResult.op = "getResultForId"
    /\ ~gsResult.done
    /\ Len(gsResult.visited) < MaxWalk
    /\ gsResult' = getResultForIdStep(gsResult)
    /\ UNCHANGED <<db, nonGraphVars>>

\* getClosestMoniker on the ResultPath getResultPath returned
GetClosestMoniker ==
    /\ gsResult.op = "getResultPath"
    /\ gsResult.done
    /\ gsResult.closest = NoResult
    /\ gsResult' = [gsResult EXCEPT !.closest =
                        [moniker |-> getClosestMoniker([path |-> gsResult.path,
                                                        result |-> gsResult.result])]]
    /\ UNCHANGED <<db, nonGraphVars>>

NextChain == StartWalk \/ GetResultPathStep \/ GetResultForIdStep \/ GetClosestMoniker

SpecChain == InitChain /\ [][NextChain]_vars

\* ------------------------------------------------------------------------
\* Specification of the walks of both stores along the same next chains
\* ------------------------------------------------------------------------
ChainResultIds == [r |-> "xr", s1 |-> "xs1", s2 |-> "xs2"]

ChainData(o, v, span, next) ==
    BlobData(v, span, IF next = "none" THEN Undef ELSE Def(next),
             IF v \in o.monikers THEN Def(ChainMonikerIds[v]) ELSE Undef,
             <<Undef, Undef, Undef, IF v \in o.results THEN Def(ChainResultIds[v]) ELSE Undef>>)

\* the blob of a.ts with the ranges, result sets, links and monikers of
\* ChainDatabase(o)
ChainBlob(o) ==
    [ranges |-> <<ChainData(o, "r", Span(0, 0, 0, 1), o.nextR)>>,
     resultSets |-> Def(("s1" :> ChainData(o, "s1", undefined, o.nextS1))
                        @@ ("s2" :> ChainData(o, "s2", undefined, o.nextS2))),
     monikers |-> IF o.monikers = {} THEN Undef
                  ELSE Def([m \in {ChainMonikerIds[v] : v \in o.monikers} |->
                               [scheme |-> "tsc", identifier |-> m, kind |-> "export"]]),
     hovers |-> Undef,
     declarationResults |-> Undef,
     definitionResults |-> Def("q" :> [values |-> <<"r">>]),
     referenceResults |-> Def([x \in {"xr", "xs1", "xs2"} |->
                                  [declarations |-> Undef, definitions |-> Undef,
                                   references |-> Def(<<"r">>)]])]

ChainBlobDatabase(o) ==
    [EmptyBlobDb EXCEPT
        !.open = TRUE,
        !.documents = <<[documentHash |-> "hA", uri |-> UriA]>>,
        !.versions = {"hA"},
        !.blobs = <<[hash |-> "hA", content |-> JSONstringify(ChainBlob(o))]>>]

\* both stores hold the same chains; the blob of a.ts is decoded and cached
InitWalks ==
    /\ GeomIdle /\ InitJson /\ DecIdle /\ ServerIdle
    /\ \E o \in ChainOptions :
         /\ db = ChainDatabase(o)
         /\ blobDb = ChainBlobDatabase(o)
    /\ blobs = getBlob(<<>>, Def("hA")).blobs
    /\ gsResult = NoResult
    /\ bsResult = NoResult

WalkedBlob == blobs[Def("hA")]

\* the map findResult is handed with each property
BlobWalkMaps == [referenceResult |-> "referenceResults", definitionResult |-> "definitionResults"]

\* a call of findResult or findMoniker on the range of the blob
StartBlobWalk ==
    /\ gsResult = NoResult
    /\ bsResult = NoResult
    /\ \/ \E property \in {"referenceResult", "definitionResult"} :
            bsResult' = BlobWalk("findResult", WalkedBlob.ranges[1], property)
       \/ bsResult' = [BlobWalk("findMoniker", WalkedBlob.ranges[1], "moniker")
                          EXCEPT !.done = ~IsDef(WalkedBlob.monikers)]
    /\ UNCHANGED <<blobDb, blobs, nonBlobVars>>

FindResultStep ==
    /\ bsResult.op = "findResult"
    /\ ~bsResult.done
    /\ Len(bsResult.visited) < MaxWalk
    /\ bsResult' = findResultStep(WalkedBlob.resultSets,
                                  Val(WalkedBlob[BlobWalkMaps[bsResult.property]]), bsResult)
    /\ UNCHANGED <<blobDb, blobs, nonBlobVars>>

FindMonikerStep ==
    /\ bsResult.op = "findMoniker"
    /\ ~bsResult.done
    /\ Len(bsResult.visited) < MaxWalk
    /\ bsResult' = findMonikerStep(WalkedBlob.resultSets, WalkedBlob.monikers, bsResult)
    /\ UNCHANGED <<blobDb, blobs, nonBlobVars>>

NextWalks ==
    \/ StartWalk \/ GetResultPathStep \/ GetResultForIdStep \/ GetClosestMoniker
    \/ StartBlobWalk \/ FindResultStep \/ FindMonikerStep

\* a loop that is running takes its next iteration
SpecWalks ==
    /\ InitWalks /\ [][NextWalks]_vars
    /\ WF_vars(GetResultPathStep) /\ WF_vars(GetResultForIdStep)
    /\ WF_vars(FindResultStep) /\ WF_vars(FindMonikerStep)

\* ------------------------------------------------------------------------
\* Specification of references over nested results and link monikers: range
\* r of a.ts with reference result x1, the nested result x2, the link moniker
\* ml of x1, its match mm on s3 with result x3, the link moniker ml2 of x3
\* and its match mm2 on s4 with result x4
\* ------------------------------------------------------------------------
LinkOptions ==
    [first : {"none", "references", "declarations"}, nested : BOOLEAN,
     second : {"none", "references", "definitions"}, own : {"none", "same", "other"},
     link : BOOLEAN, linkKind : {"import", "local"}, chained : BOOLEAN]

LinkMonikers(o) ==
    <<CompressedMoniker("m1", "tsc", IF o.own = "same" THEN "bar" ELSE "foo", "export", "project"),
      CompressedMoniker("ml", "tsc", "bar", o.linkKind, "project"),
      CompressedMoniker("mm", "tsc", "bar", "export", "project"),
      CompressedMoniker("ml2", "tsc", "baz", "import", "project"),
      CompressedMoniker("mm2", "tsc", "baz", "export", "project")>>

LinkDatabase(o) ==
    [EmptyDb EXCEPT
        !.documents = <<DocumentRow("dA", UriA)>>,
        !.ranges = <<RangeRow("r", "dA", Span(0, 0, 0, 1)), RangeRow("ra", "dA", Span(1, 0, 1, 1)),
                     RangeRow("rb", "dA", Span(1, 1, 1, 1))>>,
        !.vertices = <<VertexRow(CompressedVertex("resultSet", "s3")),
                       VertexRow(CompressedVertex("resultSet", "s4")),
                       VertexRow(CompressedVertex("referenceResult", "x1")),
                       VertexRow(CompressedVertex("referenceResult", "x2")),
                       VertexRow(CompressedVertex("referenceResult", "x3")),
                       VertexRow(CompressedVertex("referenceResult", "x4"))>>
                     \o [i \in 1..5 |-> VertexRow(LinkMonikers(o)[i])],
        !.monikers = [i \in 1..5 |-> MonikerRow(LinkMonikers(o)[i])],
        !.edges = <<EdgeRow("r", EdgeLabels.refs, "x1"),
                    EdgeRow("s3", "moniker", "mm"), EdgeRow("s3", EdgeLabels.refs, "x3"),
                    EdgeRow("s4", "moniker", "mm2"), EdgeRow("s4", EdgeLabels.refs, "x4")>>
                  \o When(o.own # "none", <<EdgeRow("r", "moniker", "m1")>>),
        !.items = When(o.first # "none", <<ItemRow("x1", "ra", o.first)>>)
                  \o When(o.nested, <<ItemRow("x1", "x2", "referenceResults")>>)
                  \o When(o.second # "none", <<ItemRow("x2", "ra", o.second)>>)
                  \o When(o.link, <<ItemRow("x1", "ml", "referenceLinks")>>)
                  \o <<ItemRow("x3", "ra", "references")>>
                  \o When(o.chained, <<ItemRow("x3", "ml2", "referenceLinks")>>)
                  \o <<ItemRow("x4", "rb", "references")>>]

InitLinks ==
    /\ NonGraphIdle
    /\ db \in {LinkDatabase(o) : o \in LinkOptions}
    /\ gsResult = NoResult

LinkUris == {Uri("lsif", "a.ts")}

LinkPositions == {Pos(0, 0), Pos(2, 0)}

\* no call is running
LinksQuiet == IF gsResult = NoResult THEN TRUE ELSE gsResult.done

\* GraphStore.references of the variant with a Set of range ids
DedupReferences ==
    /\ LinksQuiet
    /\ \E uri \in LinkUris, position \in LinkPositions, includeDeclaration \in BOOLEAN :
         LET st == dedupReferences(uri, position, includeDeclaration)
         IN gsResult' = [op |-> "dedupReferences", uri |-> uri, position |-> position,
                         includeDeclaration |-> includeDeclaration, done |-> TRUE,
                         value |-> IF IsDef(st) THEN Def(Val(st).result) ELSE Undef,
                         emitted |-> IF IsDef(st) THEN Val(st).emitted ELSE <<>>,
                         resolved |-> IF IsDef(st) THEN Val(st).resolved ELSE <<>>]
    /\ UNCHANGED <<db, nonGraphVars>>

\* GraphStore.references of the variant with DedupeArrays, up to the loop over
\* the ranges; looked is the history of the monikers whose matching monikers
\* were looked up
StartReferences ==
    /\ LinksQuiet
    /\ \E uri \in LinkUris, position \in LinkPositions, includeDeclaration \in BOOLEAN :
         LET found == findRangesFromPosition(toDatabase(uri), position)
         IN gsResult' = [op |-> "references", uri |-> uri, position |-> position,
                         includeDeclaration |-> includeDeclaration,
                         pending |-> IF IsDef(found) THEN Val(found) ELSE <<>>,
                         phase |-> "range", index |-> 0, looked |-> <<>>,
                         st |-> [result |-> DedupeArray, monikers |-> DedupeArray,
                                 resolved |-> <<>>],
                         value |-> Undef, done |-> ~IsDef(found)]
    /\ UNCHANGED <<db, nonGraphVars>>

\* findReferences for the next range, up to its loop over the moniker set
FindReferencesEnter ==
    /\ gsResult.op = "references"
    /\ ~gsResult.done
    /\ gsResult.phase = "range"
    /\ gsResult.pending # <<>>
    /\ LET entered == findReferencesEnter(gsResult.st, Head(gsResult.pending),
                                          gsResult.includeDeclaration)
       IN gsResult' = IF entered.entered
                      THEN [gsResult EXCEPT !.st = entered.st, !.phase = "loop", !.index = 0]
                      ELSE [gsResult EXCEPT !.pending = Tail(@)]
    /\ UNCHANGED <<db, nonGraphVars>>

\* an iteration of the loop over the moniker set, or its end
MonikerLoopStep ==
    /\ gsResult.op = "references"
    /\ ~gsResult.done
    /\ gsResult.phase = "loop"
    /\ LET next == iteratorNext(gsResult.st.monikers, gsResult.index)
       IN gsResult' =
            IF next.done
            THEN [gsResult EXCEPT !.phase = "range", !.pending = Tail(@)]
            ELSE [gsResult EXCEPT
                     !.st = monikerLoopBody(@, Val(next.value), gsResult.includeDeclaration),
                     !.index = @ + 1,
                     !.looked = IF Val(next.value).kind = "local" THEN @
                                ELSE Append(@, Val(next.value))]
    /\ UNCHANGED <<db, nonGraphVars>>

\* return result.value
ReferencesReturn ==
    /\ gsResult.op = "references"
    /\ ~gsResult.done
    /\ gsResult.phase = "range"
    /\ gsResult.pending = <<>>
    /\ gsResult' = [gsResult EXCEPT !.value = Def(gsResult.st.result.value), !.done = TRUE]
    /\ UNCHANGED <<db, nonGraphVars>>

NextLinks ==
    \/ DedupReferences
    \/ StartReferences \/ FindReferencesEnter \/ MonikerLoopStep \/ ReferencesReturn

SpecLinks == InitLinks /\ [][NextLinks]_vars

\* ------------------------------------------------------------------------
\* Claims
\* ------------------------------------------------------------------------
\* the ranges of the contains list that contain the queried position
Containing == {i \in 1..Len(gContains) :
                 /\ gContains[i].label = "range"
                 /\ PosLE(gContains[i].start, gPosition)
                 /\ PosLE(gPosition, gContains[i].end)}

\* span s lies inside span r and differs from it
StrictlyNested(s, r) ==
    /\ PosLE(r.start, s.start)
    /\ PosLE(s.end, r.end)
    /\ SpanOf(s) # SpanOf(r)

\* C1: findRangeFromPosition returns undefined iff no candidate contains the
\* position; otherwise it returns a candidate that contains the position and
\* has no other containing candidate strictly nested inside it; with A and B
\* of the example and p = (2,3) it returns B in either order.
C1_InnermostRange ==
    gOp = "findRangeFromPosition" =>
        /\ (gCandidate = undefined) <=> (Containing = {})
        /\ gCandidate # undefined =>
              /\ gCandidate.id \in Containing
              /\ gContains[gCandidate.id] = gCandidate
              /\ \A i \in Containing : ~StrictlyNested(gContains[i], gCandidate)
        /\ (/\ \A i \in 1..Len(gContains) : gContains[i].label = "range"
            /\ {SpanOf(gContains[i]) : i \in 1..Len(gContains)} = {ExampleA, ExampleB}
            /\ gPosition = ExampleP) => SpanOf(gCandidate) = ExampleB

C1_Witness ==
    /\ gOp = "findRangeFromPosition"
    /\ Len(gContains) = 2
    /\ gContains[1].label = "range"
    /\ gContains[2].label = "range"
    /\ SpanOf(gContains[1]) = ExampleA
    /\ SpanOf(gContains[2]) = ExampleB
    /\ gPosition = ExampleP
    /\ gCandidate = gContains[2]

\* C2: containsPosition(r, p) is true iff r.start <= p <= r.end in line-major
\* order, both boundaries included.
C2_ContainsPosition ==
    gOp = "containsPosition" =>
        (gAnswer <=> (PosLE(gRange.start, gPosition) /\ PosLE(gPosition, gRange.end)))

C2_Witness ==
    /\ gOp = "containsPosition"
    /\ gRange.start # gRange.end
    /\ gPosition = gRange.end
    /\ gAnswer

\* C3: containsRange(outer, inner) is true iff outer.start <= inner.start and
\* inner.end <= outer.end; containsRange(a, a) is true.
C3_ContainsRange ==
    gOp = "containsRange" =>
        /\ gAnswer <=> (PosLE(gRange.start, gOtherRange.start) /\ PosLE(gOtherRange.end, gRange.end))
        /\ gRange = gOtherRange => gAnswer

C3_Witness ==
    /\ gOp = "containsRange"
    /\ gRange = gOtherRange
    /\ gRange.start # gRange.end
    /\ gAnswer

\* ------------------------------------------------------------------------
\* Claims about JsonDatabase
\* ------------------------------------------------------------------------
\* the result of the first vertex with an edge of the label on the refersTo
\* chain that starts at vertex id (at most n hops)
RECURSIVE FirstOnChain(_, _, _)
FirstOnChain(id, edges, n) ==
    IF Has(edges, id) THEN Def(edges[id])
    ELSE IF Has(out.refersTo, id) /\ n > 0
         THEN FirstOnChain(out.refersTo[id].id, edges, n - 1)
         ELSE Undef

\* C4: getResult returns the range's own result if it has one, otherwise the
\* result of the first vertex on the refersTo chain, through any number of
\* ResultSet vertices, that has an edge of the label; undefined only if no
\* vertex of the chain has one.
C4_GetResultWalksChain ==
    jresult.op = "getResult" =>
        jresult.value = FirstOnChain(jresult.range, out[jresult.label],
                                     Cardinality(DOMAIN vertices.all))

\* the location a references query emits for a range of the loaded graph
LocationOfRange(id) ==
    Location(fromDatabase(inn.contains[id].uri), asRange(vertices.ranges[id]))

Count(list, x) == Cardinality({i \in 1..Len(list) : list[i] = x})

\* how often the location of range id is in a returned list
Emitted(result, id) ==
    IF Has(inn.contains, id) /\ Has(vertices.ranges, id)
    THEN Count(result, LocationOfRange(id)) ELSE 0

\* a reference result is in explicit form when one of references, declarations
\* or referenceResults is a field of the vertex; otherwise its item edges count
IsExplicit(x) == IsDef(x.references) \/ IsDef(x.declarations) \/ IsDef(x.referenceResults)

IdsOf(field) == IF IsDef(field)
                THEN {Val(field)[i].id : i \in {j \in 1..Len(Val(field)) : ~IsLocation(Val(field)[j])}}
                ELSE {}

ItemTargets(x, property) ==
    IF Has(out.item, x.id)
    THEN {IF property = "referenceResults" THEN out.item[x.id][i].result.id ELSE out.item[x.id][i].range.id :
             i \in {j \in 1..Len(out.item[x.id]) : out.item[x.id][j].type = property}}
    ELSE {}

\* the ranges a reference result lists under a property, and its children
Listed(x, property) ==
    IF IsExplicit(x) \/ IsDef(x.definitions) THEN IdsOf(x[property]) ELSE ItemTargets(x, property)

ChildrenOf(x) ==
    IF IsExplicit(x) \/ IsDef(x.definitions)
    THEN (IF IsDef(x.referenceResults)
          THEN {Val(x.referenceResults)[i] : i \in 1..Len(Val(x.referenceResults))} ELSE {})
         \cap DOMAIN vertices.all
    ELSE ItemTargets(x, "referenceResults")

\* the reference results of the forest below (and including) vertex id
RECURSIVE Forest(_, _)
Forest(id, n) ==
    IF n = 0 THEN {id}
    ELSE {id} \cup UNION {Forest(c, n - 1) : c \in ChildrenOf(vertices.all[id])}

RootForest == Forest(Val(jresult.root), Cardinality(DOMAIN vertices.all))

ReferencesReturned ==
    /\ jresult.op = "references"
    /\ IsDef(jresult.value)

\* C5: a Range vertex listed both directly in the resolved ReferenceResult and
\* in a nested child ReferenceResult is in the returned list exactly once, and
\* no range reached through several paths is in the list twice.
C5_RangeEmittedOnce ==
    ReferencesReturned =>
        LET root == vertices.all[Val(jresult.root)]
            result == Val(jresult.value)
        IN /\ \A r \in DOMAIN vertices.ranges : Emitted(result, r) <= 1
           /\ \A r \in Listed(root, "references") :
                (\E c \in ChildrenOf(root) : r \in Listed(vertices.all[c], "references"))
                    => Emitted(result, r) = 1

C5_Witness ==
    /\ ReferencesReturned
    /\ IsDef(vertices.all["x1"].referenceResults)
    /\ "x2" \in ChildrenOf(vertices.all["x1"])
    /\ "r1" \in Listed(vertices.all["x1"], "references")
    /\ "r1" \in Listed(vertices.all["x2"], "references")
    /\ Emitted(Val(jresult.value), "r1") = 1
    /\ Emitted(Val(jresult.value), "r2") = 1

\* the reference results reached from vertex id over item edges with property
\* referenceResults
RECURSIVE ItemForest(_, _)
ItemForest(id, n) ==
    IF n = 0 THEN {id}
    ELSE {id} \cup UNION {ItemForest(c, n - 1) : c \in ItemTargets(vertices.all[id], "referenceResults")}

\* the ranges that have a location: loaded and contained in a document
Locatable == DOMAIN vertices.ranges \cap DOMAIN inn.contains

\* C6: for a ReferenceResult with none of the explicit fields references,
\* declarations and referenceResults, references returns the location of
\* every range attached to it by an item edge and, recursively, of every range
\* attached to each child ReferenceResult linked to it by an item edge with
\* property referenceResults.
C6_ItemEdgesResolvedRecursively ==
    (ReferencesReturned /\ ~IsExplicit(vertices.all[Val(jresult.root)])) =>
        \A x \in ItemForest(Val(jresult.root), Cardinality(DOMAIN vertices.all)) :
            ~IsExplicit(vertices.all[x]) =>
                \A r \in ItemTargets(vertices.all[x], "references") \cap Locatable :
                    Emitted(Val(jresult.value), r) >= 1

\* C7: with includeDeclaration = false references returns only locations of
\* reference targets: a range attached to the ReferenceResult only as a
\* declaration or a definition, by explicit field or by item-edge property, is
\* not in the result; with includeDeclaration = true those ranges are in the
\* result.
C7_DeclarationsOnlyOnRequest ==
    ReferencesReturned =>
        LET root == vertices.all[Val(jresult.root)]
            result == Val(jresult.value)
            refTargets == UNION {Listed(vertices.all[x], "references") : x \in RootForest}
            declTargets == (Listed(root, "declarations") \cup Listed(root, "definitions"))
                               \cap Locatable
        IN /\ ~jresult.includeDeclaration =>
                \A r \in declTargets \ refTargets : Emitted(result, r) = 0
           /\ jresult.includeDeclaration =>
                \A r \in declTargets : Emitted(result, r) >= 1

\* ------------------------------------------------------------------------
\* Claims about GraphStore
\* ------------------------------------------------------------------------
GraphAnswered(ops) == gsResult.op \in ops /\ IsDef(gsResult.value)

InList(list, x) == \E i \in 1..Len(list) : list[i] = x

\* the moniker rows with the given id
MonikerRowsOf(id) == SelectSeq(db.monikers, LAMBDA m : m.id = id)

HasEdge(outV, label, inV) == InList(db.edges, EdgeRow(outV, label, inV))

\* range rb of b.ts and range ra of a.ts carry, through their result sets,
\* monikers mb and ma with equal scheme and identifier and different ids, mb
\* not of kind local
MonikersMatch ==
    /\ HasEdge("rb", "next", "sb") /\ HasEdge("sb", "moniker", "mb")
    /\ HasEdge("ra", "next", "sa") /\ HasEdge("sa", "moniker", "ma")
    /\ MonikerRowsOf("ma") # <<>> /\ MonikerRowsOf("mb") # <<>>
    /\ MonikerRowsOf("ma")[1].scheme = MonikerRowsOf("mb")[1].scheme
    /\ MonikerRowsOf("ma")[1].identifier = MonikerRowsOf("mb")[1].identifier
    /\ \A i \in 1..Len(db.vertices) :
          db.vertices[i].id = "mb" => decompress(db.vertices[i].value).kind # "local"

\* no item row leads from a result of b.ts to a range of a.ts, and b.ts has
\* one document row
SubgraphsApart ==
    /\ \A i \in 1..Len(db.items) :
          db.items[i].outV \in {"qb", "xb"} => db.items[i].inV \notin {"ra", "rc"}
    /\ \A i \in 1..Len(db.documents) : db.documents[i].id # "dB2"

QueryAtB == gsResult.uri = Uri("lsif", "b.ts") /\ gsResult.position = Pos(0, 0)

LocationA == Location(Uri("lsif", "a.ts"), Span(0, 0, 0, 1))

LocationB == Location(Uri("lsif", "b.ts"), Span(0, 0, 0, 1))

LocationC == Location(Uri("lsif", "a.ts"), Span(1, 0, 1, 1))

\* C8: when range rb of b.ts and range ra of a.ts carry monikers with equal
\* scheme and identifier and no next or item edge connects their subgraphs,
\* a definitions query at rb's position includes the definition location of
\* the vertex that owns ra's moniker, and a references query its reference
\* location, whether or not rb's own chain carries a result of that kind.
C8_MonikerResolvesAcrossDocuments ==
    (gsResult.op \in {"definitions", "references"} /\ QueryAtB
        /\ MonikersMatch /\ SubgraphsApart) =>
        /\ IsDef(gsResult.value)
        /\ gsResult.op = "definitions" => InList(Val(gsResult.value), LocationA)
        /\ gsResult.op = "references" => InList(Val(gsResult.value), LocationC)

\* the first occurrences of the values of a list, in order
RECURSIVE FirstOccurrences(_, _)
FirstOccurrences(list, seen) ==
    IF list = <<>> THEN <<>>
    ELSE IF Head(list) \in seen THEN FirstOccurrences(Tail(list), seen)
         ELSE <<Head(list)>> \o FirstOccurrences(Tail(list), seen \cup {Head(list)})

\* C9: the list declarations, definitions and references return never holds
\* two locations with the same uri and the same start and end line and
\* character, also when a span is reached through the local result and
\* through matching monikers; each location stands where it was first pushed.
C9_NoDuplicateLocations ==
    GraphAnswered({"declarations", "definitions", "references"}) =>
        LET list == Val(gsResult.value) IN
        /\ \A i, k \in 1..Len(list) :
              (list[i].uri = list[k].uri /\ list[i].range = list[k].range) => i = k
        /\ list = FirstOccurrences(gsResult.pushed, {})

C9_Witness ==
    /\ GraphAnswered({"definitions"})
    /\ QueryAtB
    /\ gsResult.pushed = <<LocationB, LocationA, LocationA>>
    /\ Val(gsResult.value) = <<LocationB, LocationA>>

\* C10: when the rows selected for a position hold several ranges with the
\* span of the last row, each of a different document row, the position
\* resolves to all of them, one per belongsTo; ranges of another span are not
\* among them.
C10_AllCopiesOfInnermostReturned ==
    (gsResult.op \in {"declarations", "definitions", "references"} /\ IsDef(gsResult.ranges)) =>
        LET rows == findRangesStmt(toDatabase(gsResult.uri), gsResult.position)
            last == rows[Len(rows)]
            found == Val(gsResult.ranges)
        IN /\ \A i \in 1..Len(rows) :
                sameRange(rows[i], last) =>
                    \E k \in 1..Len(found) : found[k].belongsTo = rows[i].belongsTo
           /\ \A k \in 1..Len(found) : sameRange(found[k], last)

\* the locations of the ranges that item rows with one of the properties
\* attach to one of the reference results
AttachedLocations(results, properties) ==
    UNION {{createLocation(itemRanges(x, properties)[i]) :
               i \in 1..Len(itemRanges(x, properties))} : x \in results}

\* C11: with includeDeclaration = false a range attached to a resolved
\* reference result by an item row is in the result iff the row's property is
\* references; with includeDeclaration = true the ranges attached with
\* property declarations, definitions or references are all in the result.
C11_DeclarationsOnRequest ==
    GraphAnswered({"references"}) =>
        LET list == Val(gsResult.value)
            results == {gsResult.resolved[i] : i \in 1..Len(gsResult.resolved)}
            emitted == {list[i] : i \in 1..Len(list)}
        IN IF gsResult.includeDeclaration
           THEN emitted = AttachedLocations(results, {"declarations", "definitions", "references"})
           ELSE emitted = AttachedLocations(results, {"references"})

LocationD == Location(Uri("lsif", "a.ts"), Span(1, 1, 1, 1))

C11_Witness ==
    /\ GraphAnswered({"references"})
    /\ ~gsResult.includeDeclaration
    /\ gsResult.resolved = <<"xa">>
    /\ Val(gsResult.value) = <<LocationC>>
    /\ LocationA \in AttachedLocations({"xa"}, {"definitions"})
    /\ LocationD \in AttachedLocations({"xa"}, {"declarations"})

\* ------------------------------------------------------------------------
\* Claims about BlobStore
\* ------------------------------------------------------------------------
\* the document rows of the queried uri, and the blob stored for its hash
BlobDocuments == SelectSeq(blobDb.documents, LAMBDA d : d.uri = toDatabase(bsResult.uri))

StoredBlob ==
    JSONparse((CHOOSE b \in {blobDb.blobs[i] : i \in 1..Len(blobDb.blobs)} :
                   b.hash = BlobDocuments[1].documentHash).content)

BlobQueried == bsResult.op \in DOMAIN BlobKinds /\ ~bsResult.closed /\ BlobDocuments # <<>>

\* C12: when the walk of the next chain from the innermost range finds no
\* local result and a moniker is attached to the chain, hover, declarations,
\* definitions and references return what the cross-document table holds for
\* the moniker's scheme and identifier, also when the blob has no local map of
\* that kind; a result found locally is returned as it is.
C12_MonikerFallback ==
    BlobQueried =>
        LET blob == StoredBlob
            range == blobRangeLoop(blob.ranges, 1, bsResult.position, Undef)
            k == BlobKinds[bsResult.op]
            local == IF IsDef(blob[k.map]) /\ IsDef(range)
                     THEN findResult(blob.resultSets, Val(blob[k.map]), Val(range), k.property)
                     ELSE Undef
            moniker == IF IsDef(range) THEN findMoniker(blob.resultSets, blob.monikers, Val(range))
                       ELSE Undef
            cross == IF bsResult.op = "hover" THEN findHoverInDB(Val(moniker), Val(range))
                     ELSE findInDB(bsResult.op, Val(moniker), bsResult.includeDeclaration)
            here == IF bsResult.op = "hover" THEN Val(local)
                    ELSE IF bsResult.op = "references"
                         THEN localReferences(blob, bsResult.uri, Val(local), bsResult.includeDeclaration)
                         ELSE asLocations(blob.ranges, bsResult.uri, Val(local).values)
        IN IF IsDef(local) THEN ~bsResult.error /\ bsResult.value = Def(here)
           ELSE IsDef(moniker) => ~bsResult.error /\ bsResult.value = cross.value

\* ------------------------------------------------------------------------
\* Claims about the Decompressor
\* ------------------------------------------------------------------------
Registered(value) == StartsWithNumber(value) /\ Has(dcAll, value.elements[1].n)

\* the properties that apply to the record: those of the decompressor of
\* element 0 and of its parents
RECURSIVE PropertiesOf(_)
PropertiesOf(id) ==
    (IF IsDef(dcAll[id].parentId) /\ Has(dcAll, Val(dcAll[id].parentId))
     THEN PropertiesOf(Val(dcAll[id].parentId)) ELSE {})
    \cup {dcAll[id].properties[i] : i \in 1..Len(dcAll[id].properties)}

RecordProperties ==
    IF Registered(Arr(dcCompressed)) THEN PropertiesOf(dcCompressed[1].n) ELSE {}

KnownKinds == {"id", "ids", "raw", "scalar", "literal", "array", "any"}

UnknownKind == \E p \in RecordProperties : p.compressionKind \notin KnownKinds

BadLiteral == \E p \in RecordProperties :
    /\ p.compressionKind = "literal"
    /\ ElementAt(dcCompressed, p.index).t # "null"
    /\ ~Registered(ElementAt(dcCompressed, p.index))

BadElement == \E p \in RecordProperties :
    /\ p.compressionKind \in {"array", "any"}
    /\ ElementAt(dcCompressed, p.index).t = "array"
    /\ \E i \in 1..Len(ElementAt(dcCompressed, p.index).elements) :
         /\ ElementAt(dcCompressed, p.index).elements[i].t = "array"
         /\ ~Registered(ElementAt(dcCompressed, p.index).elements[i])

Decoded == dcResult.op \in {"decompress", "decompressValue"}

\* C13: decoding a record throws and yields no record whenever a property
\* that applies to it has an unknown compressionKind, a literal value or an
\* element of an array value does not start with a registered schema id, or
\* element 0 of the record is not a registered schema id.
C13_DecodeFailsFast ==
    (Decoded /\ (UnknownKind \/ BadLiteral \/ BadElement \/ ~Registered(Arr(dcCompressed))))
        => (dcResult.result.error /\ ~IsDef(dcResult.result.value))

\* ------------------------------------------------------------------------
\* Claims about the load of JsonDatabase
\* ------------------------------------------------------------------------
IsEdge(line) == "outV" \in DOMAIN line

\* C14: processEdge of an edge whose outV or inV is not in vertices.all at that
\* point of the stream throws `No vertex found for Id` with the missing id,
\* also when the vertex comes later in the stream, and leaves out.* and
\* in.contains as they were.
C14_EdgeBeforeVertexThrows ==
    [][(/\ jload'.line # jload.line
        /\ IsEdge(jload'.line)
        /\ (~Has(vertices.all, jload'.line.outV) \/ ~Has(vertices.all, jload'.line.inV)))
       => (/\ jstate' = "failed"
           /\ jload'.thrown = IF ~Has(vertices.all, jload'.line.outV)
                              THEN Def(jload'.line.outV) ELSE Def(jload'.line.inV)
           /\ out' = out
           /\ inn' = inn)]_vars

C14_Witness ==
    /\ jstate = "failed"
    /\ jload.line = Edge("contains", "d1", "r1")
    /\ jload.thrown = Def("r1")
    /\ Has(vertices.all, "d1")
    /\ ~Has(vertices.all, "r1")
    /\ \E i \in 1..Len(LoadOrder) :
         i > Cardinality(DOMAIN vertices.all) /\ RangeVertex("r1", Span(0, 0, 0, 1)) \in LoadOrder[i]
    /\ out.contains = <<>>
    /\ inn.contains = <<>>

\* the metaData vertex the stream supplied qualifies: it has a projectRoot and
\* a version that parses and satisfies 0.3.x
MetaDataQualifies ==
    /\ Has(vertices.all, "m")
    /\ vertices.all["m"].label = "metaData"
    /\ IsDef(vertices.all["m"].projectRoot)
    /\ IsDef(vertices.all["m"].version)
    /\ IsDef(SemVerParse(Val(vertices.all["m"].version)))
    /\ SemVerSatisfies(Val(SemVerParse(Val(vertices.all["m"].version))), "0.3.x")

MetaDataRoot ==
    Has(vertices.all, "m") /\ vertices.all["m"].label = "metaData"
    /\ IsDef(vertices.all["m"].projectRoot)

BlobMiss ==
    /\ bsResult.op \in DOMAIN BlobKinds
    /\ ~bsResult.closed
    /\ \/ BlobDocuments = <<>>
       \/ LET blob == StoredBlob
              range == blobRangeLoop(blob.ranges, 1, bsResult.position, Undef)
              k == BlobKinds[bsResult.op]
          IN \/ ~IsDef(range)
             \/ /\ ~(IsDef(blob[k.map]) /\ IsDef(findResult(blob.resultSets, Val(blob[k.map]),
                                                          Val(range), k.property)))
                /\ LET moniker == findMoniker(blob.resultSets, blob.monikers, Val(range))
                   IN \/ ~IsDef(moniker)
                      \/ IF bsResult.op = "hover"
                         THEN ~IsDef(findHoverInDB(Val(moniker), Val(range)).value)
                         ELSE ~IsDef(findInDB(bsResult.op, Val(moniker), TRUE).value)

\* C16: a query whose uri matches no document, whose position lies in no range,
\* whose chain has no result, or whose moniker has no match returns undefined
\* or an empty list and raises no error.
C16_MissReturnsEmpty ==
    BlobMiss => (~bsResult.error /\ (~IsDef(bsResult.value) \/ Val(bsResult.value) = <<>>))

\* ------------------------------------------------------------------------
\* Claims about close and about repeated queries
\* ------------------------------------------------------------------------
\* C17: a query issued after close() fails; it does not return a result
\* computed from the data loaded before the close.
C17_QueryAfterCloseFails ==
    (jresult.op = "references" /\ jresult.closed) => (jresult.error /\ ~IsDef(jresult.value))

Qualifies(tag) == IsDef(tag) /\ Val(tag).type \in {"declaration", "definition"}

\* the entries a range based result must yield, as paths of range ids from
\* the top: an entry whose tag qualifies, then its children under it, in the
\* order of the result; nothing for an entry whose tag does not qualify
RECURSIVE ExpectedSymbols(_, _, _)
ExpectedSymbols(entries, tagOf, path) ==
    IF entries = <<>> THEN <<>>
    ELSE LET entry == Head(entries) IN
         (IF Qualifies(tagOf[entry.id])
          THEN <<Append(path, entry.id)>>
               \o (IF IsDef(entry.children)
                   THEN ExpectedSymbols(Val(entry.children), tagOf, Append(path, entry.id))
                   ELSE <<>>)
          ELSE <<>>)
         \o ExpectedSymbols(Tail(entries), tagOf, path)

\* the symbols of an answer as paths of names from the top
RECURSIVE EmittedSymbols(_, _)
EmittedSymbols(symbols, path) ==
    IF symbols = <<>> THEN <<>>
    ELSE <<Append(path, Head(symbols).name)>>
         \o (IF IsDef(Head(symbols).children)
             THEN EmittedSymbols(Val(Head(symbols).children), Append(path, Head(symbols).name))
             ELSE <<>>)
         \o EmittedSymbols(Tail(symbols), path)

\* every symbol of an answer is built from the tag and the span of its range
RECURSIVE BuiltFromRanges(_, _)
BuiltFromRanges(symbols, rangeOf) ==
    \A i \in 1..Len(symbols) :
        LET symbol == symbols[i]
            range == rangeOf[symbol.name]
        IN /\ Qualifies(range.tag)
           /\ symbol.kind = Val(range.tag).kind
           /\ symbol.range = Val(range.tag).fullRange
           /\ symbol.selectionRange = asRange(range)
           /\ IsDef(symbol.children) => BuiltFromRanges(Val(symbol.children), rangeOf)

\* the result array of the dump and the ranges of the dump, read from the
\* SQLite file
StoredSymbols == decompress(db.vertices[4].value).result

StoredRanges == [id \in {"r1", "r2", "r3"} |-> decompress(RowsById(db.vertices, id)[1].value)]

RangeBased(result) == result # <<>> /\ ~IsDocumentSymbol(result[1])

\* the answer is the range based result converted by the rule
ConvertedByRule(answer) ==
    /\ ~answer.error
    /\ IsDef(answer.value)
    /\ EmittedSymbols(Val(answer.value), <<>>)
         = ExpectedSymbols(StoredSymbols, [id \in DOMAIN StoredRanges |-> StoredRanges[id].tag], <<>>)
    /\ BuiltFromRanges(Val(answer.value), StoredRanges)

JsonSymbolsAsked ==
    /\ jresult.op = "documentSymbols"
    /\ Has(indices.documents, toDatabase(jresult.uri))
    /\ Has(out.documentSymbol, indices.documents[toDatabase(jresult.uri)].id)

GraphSymbolsAsked ==
    /\ gsResult.op = "documentSymbols"
    /\ toDatabase(gsResult.uri) = SymbolUri

\* C19: documentSymbols on a range based result omits an entry whose range
\* has no tag or a tag that is neither declaration nor definition, together
\* with its subtree and without an error, and emits every other entry in the
\* order of the result with its children converted by the same rule
C19_SymbolsFollowTags ==
    /\ (JsonSymbolsAsked /\ RangeBased(StoredSymbols)) => ConvertedByRule(jresult)
    /\ (GraphSymbolsAsked /\ RangeBased(StoredSymbols)) => ConvertedByRule(gsResult)

\* both stores answered for a tree whose first entry is omitted although its
\* child qualifies, and whose later entry is emitted
C19_Witness ==
    /\ JsonSymbolsAsked
    /\ GraphSymbolsAsked
    /\ StoredSymbols = SymbolShapes.left
    /\ ~Qualifies(StoredRanges["r1"].tag)
    /\ Qualifies(StoredRanges["r2"].tag)
    /\ Qualifies(StoredRanges["r3"].tag)
    /\ Val(jresult.value) = Val(gsResult.value)
    /\ EmittedSymbols(Val(jresult.value), <<>>) = << <<"r3">> >>

\* ------------------------------------------------------------------------
\* Claims about the position filter
\* ------------------------------------------------------------------------
\* the span of a range row
RowSpan(row) == Span(row.startLine, row.startCharacter, row.endLine, row.endCharacter)

\* the row is among the rows the statement returned
Selected(row) == \E i \in 1..Len(gsResult.rows) : gsResult.rows[i] = row

\* the uri of the document the row belongs to
RowUri(row) == RowsById(db.documents, row.belongsTo)[1].uri

\* C20: the where clause of findRangesStmt selects a range row of the queried
\* document exactly when containsPosition holds for the row's span and the
\* position, for every well-formed span and every position
C20_WhereIsContainsPosition ==
    gsResult.op = "findRanges" =>
        \A i \in 1..Len(db.ranges) :
            Selected(db.ranges[i])
                <=> /\ RowUri(db.ranges[i]) = gsResult.uri
                    /\ containsPosition(RowSpan(db.ranges[i]), gsResult.position)

\* a span over three lines asked at the last character of its last line: the
\* row of the queried document is selected, the row of the other is not
C20_Witness ==
    /\ gsResult.op = "findRanges"
    /\ gsResult.uri = UriA
    /\ RowSpan(db.ranges[1]) = Span(0, 1, 2, 1)
    /\ gsResult.position = Pos(2, 1)
    /\ Selected(db.ranges[1])
    /\ ~Selected(db.ranges[2])

\* ------------------------------------------------------------------------
\* Claims about the decode cache of the BlobStore
\* ------------------------------------------------------------------------
\* C21: after any sequence of positional queries the range lookup for a
\* document uses the blob stored under that document's hash, which the decode
\* cache then holds, parsed once
C21_BlobCachedPerDocument ==
    BlobQueried =>
        /\ ~bsResult.error
        /\ bsResult.range = blobRangeLoop(StoredBlob.ranges, 1, bsResult.position, Undef)
        /\ \E k \in DOMAIN blobs : blobs[k] = StoredBlob

\* ------------------------------------------------------------------------
\* Claims about ties in findRangeFromPosition
\* ------------------------------------------------------------------------
\* C22: when candidates with identical spans contain the position, the one
\* seen first in iteration order is kept; a later candidate replaces the
\* current best only if it is strictly nested in it, never when equal to it
C22_FirstSeenWinsTies ==
    (gOp = "findRangeFromPosition" /\ gCandidate # undefined) =>
        \A i \in 1..Len(gContains) :
            (gContains[i].label = "range" /\ SpanOf(gContains[i]) = SpanOf(gCandidate))
                => gCandidate.id <= gContains[i].id

\* ------------------------------------------------------------------------
\* Claims about the server
\* ------------------------------------------------------------------------
\* the keys of the databases loaded at the time of the request that are
\* prefixes of the slash-terminated request uri
PrefixKeys ==
    {srvResult.keys[i] : i \in {j \in 1..Len(srvResult.keys) :
                                   startsWith(getDatabaseKey(srvResult.uri), srvResult.keys[j])}}

\* C23: among the database keys that are prefixes of the slash-terminated
\* request uri, the database with the longest key answers the request
C23_LongestKeyAnswers ==
    (srvResult.op = "findDatabase" /\ PrefixKeys # {}) =>
        /\ IsDef(srvResult.key)
        /\ Val(srvResult.key) \in PrefixKeys
        /\ \A key \in PrefixKeys : Len(key) <= Len(Val(srvResult.key))

\* the handlers have run to their end and no callback is queued
ServerQuiet == handler.kind = "none" /\ handler.finished # "none" /\ microtasks = <<>>

\* C24: a workspace folder whose load failed is never counted as a loaded
\* database: once the failure is known it has no entry in databases, and
\* checkRegistrations does not register the capabilities on its account
C24_FailedLoadNotCounted ==
    ServerQuiet =>
        /\ \A i \in 1..Len(databases) : databases[i].promise # "rejected"
        /\ registrations => \E i \in 1..Len(databases) : databases[i].promise = "resolved"

\* C29: whenever a workspace folders change event has been fully processed,
\* registrations is defined exactly when databases is not empty; an event that
\* removes the last database and adds none leaves databases empty and the
\* registrations disposed
C29_RegistrationsFollowDatabases ==
    (ServerQuiet /\ handler.finished = "change") => (registrations <=> databases # <<>>)

\* ------------------------------------------------------------------------
\* Claims about the walks along the next chain
\* ------------------------------------------------------------------------
\* the next edge, the result edge and the moniker edge of a vertex as the
\* edges table has them
NextEdges(v) == SelectSeq(db.edges, LAMBDA e : e.outV = v /\ e.label = "next")

ResultEdges(v, label) == SelectSeq(db.edges, LAMBDA e : e.outV = v /\ e.label = label)

MonikerEdges(v) == SelectSeq(db.edges, LAMBDA e : e.outV = v /\ e.label = "moniker")

\* the first n vertices of the next chain that starts at v
RECURSIVE ChainPrefix(_, _)
ChainPrefix(v, n) ==
    IF n = 0 THEN <<>>
    ELSE <<v>> \o (IF NextEdges(v) = <<>> THEN <<>> ELSE ChainPrefix(NextEdges(v)[1].inV, n - 1))

\* the chain of the walk, followed one vertex further than any walk goes
WalkChain == ChainPrefix(gsResult.start, MaxWalk + 1)

\* the positions of the chain whose vertex has a result edge of the label
WalkHits == {i \in 1..Len(WalkChain) : ResultEdges(WalkChain[i], gsResult.label) # <<>>}

FirstHit == CHOOSE i \in WalkHits : \A j \in WalkHits : i <= j

PathVertices == [i \in 1..Len(gsResult.path) |-> gsResult.path[i].vertex]

WalkReturned == gsResult.op \in {"getResultPath", "getResultForId"} /\ gsResult.done

\* C25: getResultPath and getResultForId return the decoded result attached by
\* an edge of the label to the first vertex of the next chain from start, start
\* included, that has such an edge; the vertices visited before it are the
\* path, in chain order; if the chain ends without such an edge the result is
\* undefined
C25_FirstResultOnChain ==
    WalkReturned =>
        IF WalkHits # {}
        THEN /\ IsDef(gsResult.result)
             /\ Val(gsResult.result).value.id = ResultEdges(WalkChain[FirstHit], gsResult.label)[1].inV
             /\ gsResult.op = "getResultPath" => PathVertices = SubSeq(WalkChain, 1, FirstHit - 1)
             /\ gsResult.op = "getResultForId" => gsResult.currentId = WalkChain[FirstHit]
        ELSE /\ ~IsDef(gsResult.result)
             /\ gsResult.op = "getResultPath" => PathVertices = WalkChain

\* the walk from r passed r and s1 and found the result of s2
C25_Witness ==
    /\ WalkReturned
    /\ gsResult.op = "getResultPath"
    /\ gsResult.start = "r"
    /\ PathVertices = <<"r", "s1">>
    /\ IsDef(gsResult.result)
    /\ Val(gsResult.result).value.id = "xs2"

\* the vertices the walk visited: the path, then the vertex of the result
WalkVisited == IF WalkHits # {} THEN SubSeq(WalkChain, 1, FirstHit) ELSE WalkChain

\* the positions of the visited vertices that have a moniker edge
VisitedWithMoniker == {i \in 1..Len(WalkVisited) : MonikerEdges(WalkVisited[i]) # <<>>}

NearestWithMoniker == CHOOSE i \in VisitedWithMoniker : \A j \in VisitedWithMoniker : j <= i

ClosestAsked == WalkReturned /\ gsResult.op = "getResultPath" /\ gsResult.closest # NoResult

\* C26: getClosestMoniker returns the moniker of the vertex where the result
\* was found if it has one, otherwise the moniker of the nearest preceding
\* vertex of the walked chain that has one, and undefined only if no visited
\* vertex has a moniker
C26_ClosestMoniker ==
    ClosestAsked =>
        IF VisitedWithMoniker = {} THEN ~IsDef(gsResult.closest.moniker)
        ELSE /\ IsDef(gsResult.closest.moniker)
             /\ Val(gsResult.closest.moniker).id
                    = MonikerEdges(WalkVisited[NearestWithMoniker])[1].inV

\* the result sits on s2, which has no moniker; r and s1 have one and the
\* moniker of s1, the nearer one, is returned
C26_Witness ==
    /\ ClosestAsked
    /\ WalkVisited = <<"r", "s1", "s2">>
    /\ WalkHits = {3}
    /\ VisitedWithMoniker = {1, 2}
    /\ Val(gsResult.closest.moniker).id = "ms1"

Distinct(seq) == \A i, j \in 1..Len(seq) : seq[i] = seq[j] => i = j

\* the data of the walked blob with id v
BlobDataOf(v) ==
    IF v = WalkedBlob.ranges[1].id THEN WalkedBlob.ranges[1] ELSE Val(WalkedBlob.resultSets)[v]

\* the first n ids of the next chain of the walked blob that starts at v
RECURSIVE BlobChainPrefix(_, _)
BlobChainPrefix(v, n) ==
    IF n = 0 THEN <<>>
    ELSE <<v>> \o (IF IsDef(BlobDataOf(v).next)
                   THEN BlobChainPrefix(Val(BlobDataOf(v).next), n - 1) ELSE <<>>)

BlobChain == BlobChainPrefix(bsResult.start, MaxWalk + 1)

BlobHits == {i \in 1..Len(BlobChain) : IsDef(BlobDataOf(BlobChain[i])[bsResult.property])}

GraphWalking == gsResult.op \in {"getResultPath", "getResultForId"}

\* findMoniker enters its loop only when the blob has a moniker map
BlobWalking ==
    \/ bsResult.op = "findResult"
    \/ bsResult.op = "findMoniker" /\ IsDef(WalkedBlob.monikers)

\* a walk on a chain that runs into a cycle, no vertex of it carrying what the
\* walk looks for, has not returned
NeverOnCycle ==
    /\ GraphWalking /\ ~Distinct(WalkChain) /\ WalkHits = {} => ~gsResult.done
    /\ BlobWalking /\ ~Distinct(BlobChain) /\ BlobHits = {} => ~bsResult.done

\* a walk on an acyclic chain has looked at no vertex twice
OnceOnAcyclic ==
    /\ GraphWalking /\ Distinct(WalkChain) => Distinct(gsResult.visited)
    /\ BlobWalking /\ Distinct(BlobChain) => Distinct(bsResult.visited)

AcyclicWalk ==
    \/ GraphWalking /\ Distinct(WalkChain)
    \/ BlobWalking /\ Distinct(BlobChain)

WalkDone ==
    \/ GraphWalking /\ gsResult.done
    \/ BlobWalking /\ bsResult.done

\* C27: the walks along the next chain of getResultPath, getResultForId,
\* findResult and findMoniker have no cycle guard: on an acyclic chain they
\* return, having visited each vertex at most once, and on a chain that runs
\* into a cycle without the requested result they never return
C27_WalksTrustAcyclicity ==
    /\ [](NeverOnCycle /\ OnceOnAcyclic)
    /\ (AcyclicWalk ~> WalkDone)

\* getResultPath on r -> s1 -> s2 -> s1 without a references result is in its
\* fourth iteration, on s1 again
C27_Witness ==
    /\ gsResult.op = "getResultPath"
    /\ WalkHits = {}
    /\ PathVertices = <<"r", "s1", "s2">>
    /\ gsResult.currentId = "s1"
    /\ ~gsResult.done

\* ------------------------------------------------------------------------
\* Claims about references over nested results and link monikers
\* ------------------------------------------------------------------------
\* C28: the variant of references with a Set of range ids emits no range id
\* twice, also when a range is attached with property references to two
\* reference results that are both resolved during the call
C28_NoRangeIdTwice ==
    gsResult.op = "dedupReferences" => Distinct(gsResult.emitted)

ReferencesRunning == gsResult.op = "references" /\ ~gsResult.done

ReferencesDone == gsResult.op = "references" /\ gsResult.done

MonikerSet == gsResult.st.monikers.value

\* the rows of the monikers table that match a moniker
MatchingRows(moniker) ==
    {m \in {db.monikers[i] : i \in 1..Len(db.monikers)} :
        m.scheme = moniker.scheme /\ m.identifier = moniker.identifier /\ m.id # moniker.id}

\* the reference results of the vertices that carry a moniker
ResultsBehind(monikerId) ==
    {e.inV : e \in {x \in {db.edges[i] : i \in 1..Len(db.edges)} :
                       /\ x.label = EdgeLabels.refs
                       /\ HasEdge(x.outV, "moniker", monikerId)}}

\* every non-local moniker of the set had its matching monikers looked up and
\* the reference results behind them resolved
AllLookedUp ==
    \A i \in 1..Len(MonikerSet) :
        MonikerSet[i].kind # "local" =>
            /\ InList(gsResult.looked, MonikerSet[i])
            /\ \A m \in MatchingRows(MonikerSet[i]) :
                 \A x \in ResultsBehind(m.id) : InList(gsResult.st.resolved, x)

OnePerKey ==
    Distinct([i \in 1..Len(MonikerSet) |-> <<MonikerSet[i].scheme, MonikerSet[i].identifier>>])

\* the pairs of scheme and identifier of the monikers table: no more monikers
\* than these fit into the set
MonikerKeys == {<<db.monikers[i].scheme, db.monikers[i].identifier>> : i \in 1..Len(db.monikers)}

\* what is left of a running call: the iterations of the loop over the moniker
\* set, for the range in hand and for each range to come, each with its entry
\* and its end, and the return
LoopMeasure ==
    IF gsResult.op # "references" \/ gsResult.done THEN 0
    ELSE IF gsResult.phase = "range"
         THEN 1 + Len(gsResult.pending) * (Cardinality(MonikerKeys) + 2)
         ELSE Len(gsResult.pending) * (Cardinality(MonikerKeys) + 2) - gsResult.index

\* C30: the loop of references over the moniker set also visits the monikers
\* appended while it runs, so when the call returns every non-local moniker
\* of the set had its matching monikers looked up and their reference results
\* resolved; the set holds at most one moniker per scheme and identifier, so
\* every step of a running call leaves less to do and the call returns (the
\* item edges between reference results are acyclic in every database here)
C30_LoopVisitsAppendedMonikers ==
    /\ [](gsResult.op = "references" =>
            /\ OnePerKey
            /\ gsResult.index <= Cardinality(MonikerKeys)
            /\ LoopMeasure >= 0
            /\ (gsResult.done => AllLookedUp))
    /\ [][ReferencesRunning => LoopMeasure' < LoopMeasure]_vars

\* x1 links ml, the result x3 behind its match links ml2, which joins the set
\* while the loop runs; the result x4 behind the match of ml2 is resolved
C30_Witness ==
    /\ ReferencesDone
    /\ [i \in 1..Len(MonikerSet) |-> MonikerSet[i].id] = <<"ml", "ml2">>
    /\ [i \in 1..Len(gsResult.looked) |-> gsResult.looked[i].id] = <<"ml", "ml2">>
    /\ gsResult.st.resolved = <<"x1", "x3", "x4">>

====
